---- MODULE Spec2Model ----
(***************************************************************************)
(* A model of the Storyline-Canvas server: the in-memory storage           *)
(* (MemStorage), the settings endpoints, the generation endpoints          *)
(* (/api/generate/image, /api/generate/video, /api/generate/status) and    *)
(* the provider functions they call.                                       *)
(*                                                                         *)
(* Handlers that await a vendor call are split at the await: the part up   *)
(* to the call is one action, the part from the vendor's reply to the HTTP *)
(* response is another, and other handlers may run in between.             *)
(* randomUUID() is a fresh number drawn from nextId; a JavaScript Map      *)
(* iterates in insertion order, which is the order of those numbers.       *)
(***************************************************************************)
EXTENDS Integers, Sequences, FiniteSets, TLC

\* ------------------------------------------------------------------ bounds

\* How many records randomUUID() may name in one run.
MaxIds == 2
\* How many timelines, tiles, links, segments, tracks and clips randomUUID()
\* may name in one run.
MaxRecords == 2
\* How far the wall clock runs, in seconds.
MaxNow == 60
\* One step of the wall clock, in seconds.
TickSeconds == 60

\* ------------------------------------------------------- program constants

FREE_IMAGE_PROVIDERS == {"pollinations"}

\* The provider names POST /api/settings accepts.
aiProviders ==
    {"stability", "runway", "kling", "flux", "elevenlabs", "openai",
     "replicate", "ideogram", "dalle3", "pika", "luma"}

\* The providers the image endpoint falls back to.
ImageFallbackProviders ==
    {"stability", "flux", "openai", "dalle3", "replicate", "gemini",
     "ideogram", "huggingface"}

\* The providers the video endpoint falls back to.
VideoFallbackProviders == {"runway", "kling", "pika", "luma", "veo", "replicate"}

\* ------------------------------------------------------------ input domains

\* Provider names sent to POST /api/settings; gemini is not in aiProviders.
PostProviders == {"stability", "flux", "runway", "gemini"}
\* Those of them that have a generation function here or there.
SavedProviders == {"stability", "flux", "runway"}
\* API keys: the empty key and one key of 24 characters.
ApiKeys == {"", "sk-0123456789abcdefghijk"}
\* The provider field of a generation request; "" stands for an absent one.
RequestProviders == {"", "stability", "flux", "runway", "pollinations"}
\* Prompts: a well-formed one and one holding a lone UTF-16 surrogate.
WellFormedPrompt == "a cat"
LoneSurrogatePrompt == "\\ud800"
Prompts == {WellFormedPrompt, LoneSurrogatePrompt}
\* Tile ids named by generation requests and status polls.
TileIds == {"t1", "t2"}
\* Job ids vendors hand out.
JobIds == {"j1", "j2"}
\* What a vendor's generation endpoint may answer.
HttpErrors == {"http_402", "http_429", "http_500"}
VendorReplies == HttpErrors \cup {"ok_media", "ok_job", "ok_empty", "throws"}
\* What a vendor's status endpoint may answer about a job.
StatusReplies ==
    {"http_error", "succeeded", "succeeded_no_output", "failed", "running", "throws"}
\* What a vendor's account endpoint may answer to a key validation.
ValidationReplies == {"ok", "401", "other", "throws"}
\* A second key of 24 characters, to compare what the settings routes
\* answer when a stored key is another one.
OtherKey == "sk-zyxwvutsrqponmlkjihgf"
SettingsKeys == ApiKeys \cup {OtherKey}
\* The requests of the settings routes on their own: POST bodies, one of
\* them with a provider the schema does not know, PATCH bodies, and the
\* vendor's answers to the validation call.
SettingsPostBodies ==
    [provider : {"stability", "runway", "gemini"}, apiKey : ApiKeys]
SettingsPatchBodies == [apiKey : ApiKeys] \cup [isConnected : {FALSE}]
SettingsReplies == {"ok", "401", "throws"}
\* Bodies of PATCH /api/settings/:id.
SettingPatches ==
    [apiKey : ApiKeys] \cup [isConnected : {FALSE}]

\* Bodies of the entity routes. A POST body is parsed by the entity's insert
\* schema, BadBody being one the schema rejects; a PATCH body is not parsed.
BadBody == [bad |-> TRUE]
TimelineBodies == {[name |-> "Intro", order |-> 0], [order |-> 1]}
TimelinePatches == {[name |-> "Outro"]}
TileBodies == {[type |-> "image", timelineId |-> 1, position |-> 0]}
TilePatches == {[prompt |-> "a cat", position |-> 1]}
TileLinkBodies == {[tileId |-> 1, timelineId |-> 1, order |-> 0]}
\* segment.tsx posts every linked segment with order 0.
LinkedSegmentBodies ==
    {[timelineId |-> 1, position |-> p, order |-> 0] : p \in {0, 1}}
AudioTrackBodies == {[name |-> "Voice", type |-> "voice"]}
AudioTrackPatches == {[volume |-> 0]}
AudioClipBodies == {[trackId |-> 1, name |-> "Clip", startTime |-> 0, duration |-> 5]}
AudioClipPatches == {[trimStart |-> 1]}

\* --------------------------------------------------------------- variables

VARIABLES
    apiSettings,   \* MemStorage.apiSettings: id -> APISetting
    nextId,        \* the next value randomUUID() returns
    jobStore,      \* providers.ts jobStore: tileId -> job
    genReq,        \* the generation requests in flight, and their responses
    now,           \* the wall clock, in seconds
    lastFailure,   \* history: the latest failed generation call
    everFailed,    \* history: the providers a generation call of which failed
    atRequest,     \* history: the providers connected when the request arrived
    poll,          \* the status request in flight, and its response
    everStored,    \* history: the tiles a job has been stored for
    timelines,     \* MemStorage.timelines: id -> Timeline
    tiles,         \* MemStorage.tiles: id -> Tile
    tileLinks,     \* MemStorage.tileLinks: id -> TileLink
    linkedSegments, \* MemStorage.linkedSegments: id -> LinkedSegment
    audioTracks,   \* MemStorage.audioTracks: id -> AudioTrack
    audioClips,    \* MemStorage.audioClips: id -> AudioClip
    crudRes,       \* the latest response of an entity route
    submitted,     \* history: id -> the record as posted and patched
    crudReq,       \* history: the entity request answered last, and the ids it removed
    settingsRes,   \* the settings request answered last and its response
    validatedKeys, \* history: the <<provider, key>> pairs validateApiKey found valid
    cTimelines,    \* useAppStore.timelines: id -> Timeline
    cTiles,        \* useAppStore.tiles: id -> Tile
    cLinkedSegments, \* useAppStore.linkedSegments, in array order
    pendingJobs,   \* TimelineWorkspace.pendingJobs: the tiles polled for
    mutation,      \* generateMutation: the generation the client waits for
    requests,      \* the PATCH and DELETE requests the client has sent
    timeouts,      \* the tiles a setTimeout will start the generation of
    polling        \* the tile the status of which is being fetched, 0 when none

entities == <<timelines, tiles, tileLinks, linkedSegments, audioTracks, audioClips>>

client == <<cTimelines, cTiles, cLinkedSegments, pendingJobs, mutation, requests,
            timeouts, polling>>

vars == <<apiSettings, nextId, jobStore, genReq, now, lastFailure, everFailed,
          atRequest, poll, everStored, entities, crudRes, submitted, crudReq, settingsRes, validatedKeys, client>>

\* ----------------------------------------------------------------- helpers

EmptyMap == [k \in {} |-> k]

Put(m, k, v) == [x \in DOMAIN m \cup {k} |-> IF x = k THEN v ELSE m[x]]

Remove(m, k) == [x \in DOMAIN m \ {k} |-> m[x]]

\* { ...a, ...b }
Merge(a, b) ==
    [f \in DOMAIN a \cup DOMAIN b |-> IF f \in DOMAIN b THEN b[f] ELSE a[f]]

\* The generation requests in flight: the handlers share nothing but the
\* storage and the job store, so one request at a time is followed.
Requests == {"r1"}

Least(S) == CHOOSE k \in S : \A j \in S : k <= j

\* Array.prototype.find over the values of a Map, which come in insertion
\* order: of the ids of the values that match, the first, 0 when none does.
FirstOf(hits) == IF hits = {} THEN 0 ELSE Least(hits)

ApiKeyLength(k) == IF k = "" THEN 0 ELSE 24

\* --------------------------------------------------- storage: API settings

\* saveApiSetting that stores every setting under the id at hand, whether
\* the provider has a setting or not.
SaveApiSettingAlwaysNew(settings, id, insert) ==
    Put(settings, id, Merge(insert, [id |-> id, isConnected |-> insert.apiKey # ""]))

\* MemStorage.saveApiSetting: one setting per provider name; saving for a
\* provider that has one overwrites it under its id, else a new id is drawn.
SaveApiSetting(settings, id, insert) ==
    LET existing == FirstOf({key \in DOMAIN settings :
            settings[key].provider = insert.provider})
    IN  IF existing # 0
        THEN Put(settings, existing,
                 Merge(Merge(settings[existing], insert),
                       [isConnected |-> insert.apiKey # ""]))
        ELSE Put(settings, id,
                 Merge(insert, [id |-> id, isConnected |-> insert.apiKey # ""]))

\* Whether saveApiSetting draws a new id.
SaveDrawsId(settings, insert) ==
    FirstOf({key \in DOMAIN settings : settings[key].provider = insert.provider}) = 0

\* MemStorage.deleteApiSetting: by provider name.
DeleteApiSetting(settings, provider) ==
    LET k == FirstOf({key \in DOMAIN settings : settings[key].provider = provider})
    IN  IF k = 0 THEN settings ELSE Remove(settings, k)

\* storage.getApiSettingById: 0 when the id is not stored.
GetApiSettingById(settings, id) == IF id \in DOMAIN settings THEN id ELSE 0

\* storage.updateApiSetting: the stored setting overwritten by the updates.
UpdateApiSetting(settings, id, updates) ==
    IF id \in DOMAIN settings
    THEN Put(settings, id, Merge(settings[id], updates))
    ELSE settings

\* ------------------------------------------------------- schema: parsing

\* insertTimelineSchema.parse and its like: whether the body is accepted,
\* and the parsed value, the schema's defaults filled in.
AcceptsAnything(body) == TRUE

Accepts(body) == "bad" \notin DOMAIN body

ParseTimeline(body) ==
    Merge([name |-> "Main Timeline", isCollapsed |-> FALSE, order |-> 0], body)

ParseTile(body) ==
    Merge([prompt |-> "", selectedFrame |-> 0, isGenerating |-> FALSE], body)

ParseAudioTrack(body) ==
    Merge([startTime |-> 0, duration |-> 0, volume |-> 1, isMuted |-> FALSE,
           isSolo |-> FALSE, fadeIn |-> 0, fadeOut |-> 0], body)

ParseAudioClip(body) == Merge([trimStart |-> 0, trimEnd |-> 0], body)

\* ------------------------------------------------------ storage: entities

\* The stored records that satisfy a filter, deleted one by one.
Without(store, ids) == [k \in DOMAIN store \ ids |-> store[k]]

\* Array.prototype.sort by order, which is stable: the place of a record
\* among the records of its store, from 0.
OrderIndex(store, k) ==
    Cardinality({j \in DOMAIN store :
                    \/ store[j].order < store[k].order
                    \/ store[j].order = store[k].order /\ j < k})

SortByOrder(store) ==
    [i \in 1..Cardinality(DOMAIN store) |->
        store[CHOOSE k \in DOMAIN store : OrderIndex(store, k) = i - 1]]

\* reindexLinkedSegments leaving every order as it is.
ReindexSkipped(segments) == segments

\* MemStorage.reindexLinkedSegments: every segment's order becomes its place
\* in the sorted sequence.
ReindexLinkedSegments(segments) ==
    [k \in DOMAIN segments |->
        [segments[k] EXCEPT !.order = OrderIndex(segments, k)]]

CreateTimeline(store, id, insert) == Put(store, id, Merge(insert, [id |-> id]))

\* updateTimeline with the stored record dropped instead of overwritten.
UpdateTimelineReplaces(store, id, updates) ==
    IF id \in DOMAIN store THEN Put(store, id, Merge(updates, [id |-> id])) ELSE store

UpdateTimeline(store, id, updates) ==
    IF id \in DOMAIN store THEN Put(store, id, Merge(store[id], updates)) ELSE store

CreateTile(store, id, insert) == Put(store, id, Merge(insert, [id |-> id]))

UpdateTile(store, id, updates) ==
    IF id \in DOMAIN store THEN Put(store, id, Merge(store[id], updates)) ELSE store

CreateTileLink(store, id, insert) == Put(store, id, Merge(insert, [id |-> id]))

\* MemStorage.createLinkedSegment: the order is one more than the largest
\* stored, 0 in an empty store, whatever the insert says.
CreateLinkedSegment(store, id, insert) ==
    LET orders == {store[k].order : k \in DOMAIN store}
        maxOrder == IF orders = {} THEN 0
                    ELSE (CHOOSE o \in orders : \A x \in orders : x <= o) + 1
    IN  Put(store, id, Merge(insert, [id |-> id, order |-> maxOrder]))

DeleteLinkedSegment(store, id) == ReindexLinkedSegments(Remove(store, id))

DeleteLinkedSegmentByTimelinePosition(store, timelineId, position) ==
    LET segment == FirstOf({k \in DOMAIN store :
                        /\ store[k].timelineId = timelineId
                        /\ store[k].position = position})
    IN  IF segment # 0 THEN ReindexLinkedSegments(Remove(store, segment)) ELSE store

CreateAudioTrack(store, id, insert) == Put(store, id, Merge(insert, [id |-> id]))

UpdateAudioTrack(store, id, updates) ==
    IF id \in DOMAIN store THEN Put(store, id, Merge(store[id], updates)) ELSE store

CreateAudioClip(store, id, insert) == Put(store, id, Merge(insert, [id |-> id]))

UpdateAudioClip(store, id, updates) ==
    IF id \in DOMAIN store THEN Put(store, id, Merge(store[id], updates)) ELSE store

\* The id fields of the records stored under some keys: what
\* forEach((t) => map.delete(t.id)) deletes.
IdsOf(store, keys) == {store[k].id : k \in keys}

\* MemStorage.deleteTimeline: the timeline's tiles, tile links and linked
\* segments go with it, and the segments left are reindexed.
DeleteTimelineOnly(id) ==
    /\ timelines' = Remove(timelines, id)
    /\ UNCHANGED <<tiles, tileLinks, linkedSegments>>

DeleteTimeline(id) ==
    /\ tiles' = Without(tiles, IdsOf(tiles, {k \in DOMAIN tiles : tiles[k].timelineId = id}))
    /\ tileLinks' =
            Without(tileLinks,
                    IdsOf(tileLinks,
                          {k \in DOMAIN tileLinks : tileLinks[k].timelineId = id}))
    /\ linkedSegments' = ReindexLinkedSegments(
            Without(linkedSegments,
                    IdsOf(linkedSegments,
                          {k \in DOMAIN linkedSegments :
                                linkedSegments[k].timelineId = id})))
    /\ timelines' = Remove(timelines, id)

\* deleteTile that leaves the linked segments alone.
DeleteTileKeepsSegments(id) ==
    /\ tileLinks' =
            Without(tileLinks,
                    IdsOf(tileLinks, {k \in DOMAIN tileLinks : tileLinks[k].tileId = id}))
    /\ UNCHANGED linkedSegments
    /\ tiles' = Remove(tiles, id)

\* MemStorage.deleteTile: the tile's links go with it and, when the tile is
\* stored, the linked segments at its timeline and position.
DeleteTile(id) ==
    /\ tileLinks' =
            Without(tileLinks,
                    IdsOf(tileLinks, {k \in DOMAIN tileLinks : tileLinks[k].tileId = id}))
    /\ linkedSegments' =
            IF id \in DOMAIN tiles
            THEN ReindexLinkedSegments(
                    Without(linkedSegments,
                        IdsOf(linkedSegments,
                              {k \in DOMAIN linkedSegments :
                                /\ linkedSegments[k].timelineId = tiles[id].timelineId
                                /\ linkedSegments[k].position = tiles[id].position})))
            ELSE linkedSegments
    /\ tiles' = Remove(tiles, id)

\* -------------------------------------------------- providers.ts: validation

\* validateApiKey, for the vendor's answer to the test call.
ValidateApiKey(provider, apiKey, reply) ==
    IF reply = "throws" THEN FALSE
    ELSE CASE provider \in {"stability", "openai", "dalle3", "gemini",
                            "huggingface", "replicate", "flux"} -> reply = "ok"
           [] provider = "runway" ->
                IF reply = "ok" THEN TRUE
                ELSE IF reply = "401" THEN FALSE
                ELSE ApiKeyLength(apiKey) > 20
           [] provider = "ideogram" -> reply \notin {"401", "403"}
           [] provider \in {"hunyuan", "firefly", "bria", "pollinations",
                            "runware", "veo", "kling", "pika", "luma", "tavus",
                            "mootion", "akool", "mirage", "pictory"} ->
                ApiKeyLength(apiKey) >= 10
           [] OTHER -> ApiKeyLength(apiKey) > 10

\* ---------------------------------------------------- routes.ts: settings

\* POST /api/settings: the schema, then the key validation, then the save.
PostSettingAccepted(body, reply) ==
    /\ body.provider \in aiProviders
    /\ ValidateApiKey(body.provider, body.apiKey, reply)

PostSetting(body, reply) ==
    /\ SaveDrawsId(apiSettings, body) => nextId <= MaxIds
    /\ IF PostSettingAccepted(body, reply)
       THEN /\ apiSettings' = SaveApiSetting(apiSettings, nextId, body)
            /\ nextId' = IF SaveDrawsId(apiSettings, body) THEN nextId + 1 ELSE nextId
       ELSE UNCHANGED <<apiSettings, nextId>>
    /\ UNCHANGED <<jobStore, genReq>>

\* PATCH /api/settings/:id: a non-empty key in the body is validated against
\* the stored setting's provider and marks the setting connected; every other
\* body goes to storage as it is.
PatchSettingUpdates(settings, id, updates, reply) ==
    LET existing == GetApiSettingById(settings, id)
        hasKey == "apiKey" \in DOMAIN updates /\ updates.apiKey # ""
    IN  IF hasKey /\ existing # 0
        THEN IF ValidateApiKey(settings[existing].provider, updates.apiKey, reply)
             THEN [rejected |-> FALSE, updates |-> Merge(updates, [isConnected |-> TRUE])]
             ELSE [rejected |-> TRUE, updates |-> updates]
        ELSE [rejected |-> FALSE, updates |-> updates]

PatchSetting(id, updates, reply) ==
    LET p == PatchSettingUpdates(apiSettings, id, updates, reply)
    IN  /\ apiSettings' = IF p.rejected THEN apiSettings
                          ELSE UpdateApiSetting(apiSettings, id, p.updates)
        /\ UNCHANGED <<nextId, jobStore, genReq>>

\* DELETE /api/settings/:provider
DeleteSetting(provider) ==
    /\ apiSettings' = DeleteApiSetting(apiSettings, provider)
    /\ UNCHANGED <<nextId, jobStore, genReq>>

\* DELETE /api/settings/:id
DeleteApiSettingById(settings, id) == Remove(settings, id)

DeleteSettingById(id) ==
    /\ apiSettings' = DeleteApiSettingById(apiSettings, id)
    /\ UNCHANGED <<nextId, jobStore, genReq>>

\* What the settings routes answer. The key of a setting is never sent: a
\* non-empty one is replaced by the mask (eight bullets in the source).
KeyMask == "********"

ShowsKey(setting) == setting

Sanitized(setting) ==
    [setting EXCEPT !.apiKey = IF setting.apiKey # "" THEN KeyMask ELSE ""]

\* GET /api/settings
GetSettings(settings) == [k \in DOMAIN settings |-> Sanitized(settings[k])]

\* The error text of a failed validation, "Invalid API key" where
\* validateApiKey gives none.
ValidationError(provider, reply) ==
    IF reply = "throws" THEN "Connection failed"
    ELSE IF provider \in {"kling", "pika", "luma"} THEN "API key too short"
    ELSE "Invalid API key"

NoSettingsResponse == [method |-> "", code |-> 0, body |-> [none |-> TRUE]]

SettingsResponse(method, code, body) == [method |-> method, code |-> code, body |-> body]

PostSettingResponse(settings, id, body, reply) ==
    IF body.provider \notin aiProviders
    THEN SettingsResponse("POST", 400, [error |-> "ZodError"])
    ELSE IF ~ValidateApiKey(body.provider, body.apiKey, reply)
    THEN SettingsResponse("POST", 400,
            [error |-> ValidationError(body.provider, reply), validated |-> FALSE])
    ELSE LET saved == SaveApiSetting(settings, id, body)
             k == FirstOf({key \in DOMAIN saved : saved[key].provider = body.provider})
         IN  SettingsResponse("POST", 201,
                Merge(saved[k], [apiKey |-> KeyMask, isConnected |-> TRUE,
                                 validated |-> TRUE]))

PatchSettingResponse(settings, id, updates, reply) ==
    LET p == PatchSettingUpdates(settings, id, updates, reply)
    IN  IF p.rejected
        THEN SettingsResponse("PATCH", 400,
                [error |-> ValidationError(settings[id].provider, reply),
                 validated |-> FALSE])
        ELSE IF GetApiSettingById(settings, id) = 0
        THEN SettingsResponse("PATCH", 404, [error |-> "Setting not found"])
        ELSE SettingsResponse("PATCH", 200,
                Sanitized(UpdateApiSetting(settings, id, p.updates)[id]))

DeleteSettingResponse(settings, id) ==
    IF id \in DOMAIN settings
    THEN SettingsResponse("DELETE", 204, [none |-> TRUE])
    ELSE SettingsResponse("DELETE", 404, [error |-> "Setting not found"])

\* ---------------------------------------------------- routes.ts: entities

Response(code, id) == [code |-> code, id |-> id]

NotFound == [error |-> "not found"]

\* GET /api/timelines/:id and its like: the stored record, or 404.
GetTimeline(id) == IF id \in DOMAIN timelines THEN timelines[id] ELSE NotFound

GetTile(id) == IF id \in DOMAIN tiles THEN tiles[id] ELSE NotFound

GetAudioTrack(id) == IF id \in DOMAIN audioTracks THEN audioTracks[id] ELSE NotFound

GetAudioClip(id) == IF id \in DOMAIN audioClips THEN audioClips[id] ELSE NotFound

\* GET /api/tile-links and GET /api/linked-segments: the stored records,
\* sorted by order.
GetTileLinks == SortByOrder(tileLinks)

GetLinkedSegments == SortByOrder(linkedSegments)

\* POST /api/timelines
PostTimelines(body) ==
    /\ Accepts(body) => nextId <= MaxRecords
    /\ IF Accepts(body)
       THEN /\ timelines' = CreateTimeline(timelines, nextId, ParseTimeline(body))
            /\ nextId' = nextId + 1
            /\ crudRes' = Response(201, nextId)
       ELSE /\ crudRes' = Response(400, 0)
            /\ UNCHANGED <<timelines, nextId>>
    /\ UNCHANGED <<tiles, tileLinks, linkedSegments, audioTracks, audioClips>>

\* PATCH /api/timelines/:id
PatchTimelines(id, updates) ==
    /\ timelines' = UpdateTimeline(timelines, id, updates)
    /\ crudRes' = Response(IF id \in DOMAIN timelines THEN 200 ELSE 404, id)
    /\ UNCHANGED <<nextId, tiles, tileLinks, linkedSegments, audioTracks, audioClips>>

\* DELETE /api/timelines/:id
DeleteTimelines(id) ==
    /\ DeleteTimeline(id)
    /\ crudRes' = Response(IF id \in DOMAIN timelines THEN 204 ELSE 404, id)
    /\ UNCHANGED <<nextId, audioTracks, audioClips>>

\* POST /api/tiles
PostTiles(body) ==
    /\ Accepts(body) => nextId <= MaxRecords
    /\ IF Accepts(body)
       THEN /\ tiles' = CreateTile(tiles, nextId, ParseTile(body))
            /\ nextId' = nextId + 1
            /\ crudRes' = Response(201, nextId)
       ELSE /\ crudRes' = Response(400, 0)
            /\ UNCHANGED <<tiles, nextId>>
    /\ UNCHANGED <<timelines, tileLinks, linkedSegments, audioTracks, audioClips>>

\* PATCH /api/tiles/:id
PatchTiles(id, updates) ==
    /\ tiles' = UpdateTile(tiles, id, updates)
    /\ crudRes' = Response(IF id \in DOMAIN tiles THEN 200 ELSE 404, id)
    /\ UNCHANGED <<nextId, timelines, tileLinks, linkedSegments, audioTracks, audioClips>>

\* DELETE /api/tiles/:id answering 204 whatever storage says.
DeleteTilesAnswersNoContent(id) ==
    /\ DeleteTile(id)
    /\ crudRes' = Response(204, id)
    /\ UNCHANGED <<nextId, timelines, audioTracks, audioClips>>

\* DELETE /api/tiles/:id
DeleteTiles(id) ==
    /\ DeleteTile(id)
    /\ crudRes' = Response(IF id \in DOMAIN tiles THEN 204 ELSE 404, id)
    /\ UNCHANGED <<nextId, timelines, audioTracks, audioClips>>

\* POST /api/tile-links
PostTileLinks(body) ==
    /\ Accepts(body) => nextId <= MaxRecords
    /\ IF Accepts(body)
       THEN /\ tileLinks' = CreateTileLink(tileLinks, nextId, body)
            /\ nextId' = nextId + 1
            /\ crudRes' = Response(201, nextId)
       ELSE /\ crudRes' = Response(400, 0)
            /\ UNCHANGED <<tileLinks, nextId>>
    /\ UNCHANGED <<timelines, tiles, linkedSegments, audioTracks, audioClips>>

\* DELETE /api/tile-links/:id
DeleteTileLinks(id) ==
    /\ tileLinks' = Remove(tileLinks, id)
    /\ crudRes' = Response(IF id \in DOMAIN tileLinks THEN 204 ELSE 404, id)
    /\ UNCHANGED <<nextId, timelines, tiles, linkedSegments, audioTracks, audioClips>>

\* DELETE /api/tile-links
ClearTileLinks ==
    /\ tileLinks' = EmptyMap
    /\ crudRes' = Response(204, 0)
    /\ UNCHANGED <<nextId, timelines, tiles, linkedSegments, audioTracks, audioClips>>

\* POST /api/linked-segments
PostLinkedSegments(body) ==
    /\ Accepts(body) => nextId <= MaxRecords
    /\ IF Accepts(body)
       THEN /\ linkedSegments' = CreateLinkedSegment(linkedSegments, nextId, body)
            /\ nextId' = nextId + 1
            /\ crudRes' = Response(201, nextId)
       ELSE /\ crudRes' = Response(400, 0)
            /\ UNCHANGED <<linkedSegments, nextId>>
    /\ UNCHANGED <<timelines, tiles, tileLinks, audioTracks, audioClips>>

\* DELETE /api/linked-segments/:id
DeleteLinkedSegments(id) ==
    /\ linkedSegments' = DeleteLinkedSegment(linkedSegments, id)
    /\ crudRes' = Response(IF id \in DOMAIN linkedSegments THEN 204 ELSE 404, id)
    /\ UNCHANGED <<nextId, timelines, tiles, tileLinks, audioTracks, audioClips>>

\* DELETE /api/linked-segments?timelineId=..&position=..
DeleteLinkedSegmentsAt(timelineId, position) ==
    /\ linkedSegments' =
            DeleteLinkedSegmentByTimelinePosition(linkedSegments, timelineId, position)
    /\ crudRes' = Response(204, 0)
    /\ UNCHANGED <<nextId, timelines, tiles, tileLinks, audioTracks, audioClips>>

\* DELETE /api/linked-segments without both query parameters
ClearLinkedSegments ==
    /\ linkedSegments' = EmptyMap
    /\ crudRes' = Response(204, 0)
    /\ UNCHANGED <<nextId, timelines, tiles, tileLinks, audioTracks, audioClips>>

\* POST /api/audio-tracks
PostAudioTracks(body) ==
    /\ Accepts(body) => nextId <= MaxRecords
    /\ IF Accepts(body)
       THEN /\ audioTracks' = CreateAudioTrack(audioTracks, nextId, ParseAudioTrack(body))
            /\ nextId' = nextId + 1
            /\ crudRes' = Response(201, nextId)
       ELSE /\ crudRes' = Response(400, 0)
            /\ UNCHANGED <<audioTracks, nextId>>
    /\ UNCHANGED <<timelines, tiles, tileLinks, linkedSegments, audioClips>>

\* PATCH /api/audio-tracks/:id
PatchAudioTracks(id, updates) ==
    /\ audioTracks' = UpdateAudioTrack(audioTracks, id, updates)
    /\ crudRes' = Response(IF id \in DOMAIN audioTracks THEN 200 ELSE 404, id)
    /\ UNCHANGED <<nextId, timelines, tiles, tileLinks, linkedSegments, audioClips>>

\* DELETE /api/audio-tracks/:id
DeleteAudioTracks(id) ==
    /\ audioTracks' = Remove(audioTracks, id)
    /\ crudRes' = Response(IF id \in DOMAIN audioTracks THEN 204 ELSE 404, id)
    /\ UNCHANGED <<nextId, timelines, tiles, tileLinks, linkedSegments, audioClips>>

\* POST /api/audio-clips
PostAudioClips(body) ==
    /\ Accepts(body) => nextId <= MaxRecords
    /\ IF Accepts(body)
       THEN /\ audioClips' = CreateAudioClip(audioClips, nextId, ParseAudioClip(body))
            /\ nextId' = nextId + 1
            /\ crudRes' = Response(201, nextId)
       ELSE /\ crudRes' = Response(400, 0)
            /\ UNCHANGED <<audioClips, nextId>>
    /\ UNCHANGED <<timelines, tiles, tileLinks, linkedSegments, audioTracks>>

\* PATCH /api/audio-clips/:id
PatchAudioClips(id, updates) ==
    /\ audioClips' = UpdateAudioClip(audioClips, id, updates)
    /\ crudRes' = Response(IF id \in DOMAIN audioClips THEN 200 ELSE 404, id)
    /\ UNCHANGED <<nextId, timelines, tiles, tileLinks, linkedSegments, audioTracks>>

\* DELETE /api/audio-clips/:id
DeleteAudioClips(id) ==
    /\ audioClips' = Remove(audioClips, id)
    /\ crudRes' = Response(IF id \in DOMAIN audioClips THEN 204 ELSE 404, id)
    /\ UNCHANGED <<nextId, timelines, tiles, tileLinks, linkedSegments, audioTracks>>

\* -------------------------------------------------- providers.ts: generation

Failure(error) ==
    [success |-> FALSE, mediaUrl |-> "none", jobId |-> "none", error |-> error]

Media(url) ==
    [success |-> TRUE, mediaUrl |-> url, jobId |-> "none", error |-> "none"]

Job(jobId) ==
    [success |-> TRUE, mediaUrl |-> "none", jobId |-> jobId, error |-> "none"]

\* `${name} API error: ${response.status}`
ApiError(reply) ==
    CASE reply = "http_402" -> "API error: 402"
      [] reply = "http_429" -> "API error: 429"
      [] OTHER -> "API error: 500"

\* encodeURIComponent throws a URIError on a lone surrogate.
EncodeURIComponent(prompt) ==
    IF prompt = LoneSurrogatePrompt THEN "URIError" ELSE "encoded"

\* generateImage, for the vendor's answer; jobId is the id the vendor gives
\* when it answers with a prediction that is still running.
GenerateImage(provider, prompt, apiKey, reply, jobId) ==
    IF apiKey = "" /\ provider \notin FREE_IMAGE_PROVIDERS
    THEN Failure("No API key configured")
    ELSE CASE provider \in {"stability", "openai", "dalle3", "gemini", "ideogram"} ->
                IF reply = "throws" THEN Failure("Generation failed")
                ELSE IF reply \in HttpErrors THEN Failure(ApiError(reply))
                ELSE IF reply = "ok_media" THEN Media("vendor-url")
                ELSE Failure("No image returned")
           [] provider \in {"flux", "replicate"} ->
                IF reply = "throws" THEN Failure("Generation failed")
                ELSE IF reply \in HttpErrors THEN Failure(ApiError(reply))
                ELSE IF reply = "ok_media" THEN Media("vendor-url")
                ELSE IF reply = "ok_job" THEN Job(jobId)
                ELSE Failure("No prediction ID returned")
           [] provider = "pollinations" ->
                IF EncodeURIComponent(prompt) = "URIError"
                THEN Failure("Generation failed")
                ELSE Media("pollinations-url")
           [] provider = "huggingface" ->
                IF reply = "throws" THEN Failure("Generation failed")
                ELSE IF reply \in HttpErrors THEN Failure(ApiError(reply))
                ELSE Media("vendor-url")
           [] OTHER -> Failure("integration is not yet available")

\* generateVideo; ref says whether the request carries a reference image.
GenerateVideo(provider, apiKey, ref, reply, jobId) ==
    IF apiKey = ""
    THEN Failure("No API key configured")
    ELSE CASE provider = "runway" ->
                IF ~ref THEN Failure("Runway requires a reference image")
                ELSE IF reply = "throws" THEN Failure("Video generation failed")
                ELSE IF reply \in HttpErrors THEN Failure(ApiError(reply))
                ELSE IF reply = "ok_job" THEN Job(jobId)
                ELSE Job("none")
           [] provider = "replicate" ->
                IF reply = "throws" THEN Failure("Video generation failed")
                ELSE IF reply \in HttpErrors THEN Failure(ApiError(reply))
                ELSE IF reply = "ok_media" THEN Media("vendor-url")
                ELSE IF reply = "ok_job" THEN Job(jobId)
                ELSE Job("none")
           [] provider = "luma" ->
                IF reply = "throws" THEN Failure("Video generation failed")
                ELSE IF reply \in HttpErrors THEN Failure(ApiError(reply))
                ELSE IF reply = "ok_job" THEN Job(jobId)
                ELSE Job("none")
           [] OTHER -> Failure("video integration is not yet available")

\* storeJob
StoreJob(jobs, tileId, provider, jobId, type) ==
    Put(jobs, tileId,
        [provider |-> provider, jobId |-> jobId, tileId |-> tileId, type |-> type])

\* getJob: whether a job is stored for the tile.
HasJob(jobs, tileId) == tileId \in DOMAIN jobs

\* removeJob
RemoveJob(jobs, tileId) == Remove(jobs, tileId)

JobStatus(status, mediaUrl, error) ==
    [status |-> status, mediaUrl |-> mediaUrl, error |-> error]

\* The status check with a failed vendor state taken for one still running.
CheckJobStatusMissesFailure(provider, jobId, apiKey, reply) ==
    IF apiKey = "" THEN JobStatus("failed", "none", "No API key")
    ELSE IF reply = "throws" THEN JobStatus("failed", "none", "Status check failed")
    ELSE IF reply = "http_error" THEN JobStatus("failed", "none", "Failed to check status")
    ELSE IF reply = "succeeded" THEN JobStatus("completed", "vendor-url", "none")
    ELSE IF reply = "succeeded_no_output" THEN JobStatus("completed", "none", "none")
    ELSE JobStatus("processing", "none", "none")

\* checkJobStatus, for the vendor's answer to the status call.
CheckJobStatus(provider, jobId, apiKey, reply) ==
    IF apiKey = "" THEN JobStatus("failed", "none", "No API key")
    ELSE IF provider \notin {"runway", "flux", "replicate", "luma", "veo", "kling"}
    THEN JobStatus("failed", "none", "Unknown provider")
    ELSE IF reply = "throws" THEN JobStatus("failed", "none", "Status check failed")
    ELSE IF reply = "http_error" THEN JobStatus("failed", "none", "Failed to check status")
    ELSE IF reply = "succeeded" THEN JobStatus("completed", "vendor-url", "none")
    ELSE IF reply = "succeeded_no_output"
    THEN IF provider = "veo"
         THEN JobStatus("failed", "none", "No video in Veo response")
         ELSE JobStatus("completed", "none", "none")
    ELSE IF reply = "failed" THEN JobStatus("failed", "none", "Generation failed")
    ELSE JobStatus("processing", "none", "none")

\* Whether checkJobStatus gets as far as its call of the vendor.
CallsVendor(provider, apiKey) ==
    apiKey # "" /\ provider \in {"runway", "flux", "replicate", "luma", "veo", "kling"}

\* ------------------------------------------------- routes.ts: generation

\* The selection with the fallback taken from the settings in reverse: the
\* connected setting created last instead of the one created first.
SelectImageProviderLastConnected(settings, named) ==
    LET provider == IF named = "" THEN "pollinations" ELSE named
        providerSetting ==
            FirstOf({key \in DOMAIN settings :
                    /\ settings[key].provider = provider
                    /\ settings[key].isConnected})
        hits == {k \in DOMAIN settings :
                    /\ settings[k].provider \in ImageFallbackProviders
                    /\ settings[k].isConnected}
        fallbackSetting == IF hits = {} THEN 0
                           ELSE CHOOSE k \in hits : \A j \in hits : j <= k
    IN  IF provider \in FREE_IMAGE_PROVIDERS
        THEN [provider |-> provider, apiKey |-> ""]
        ELSE IF providerSetting # 0
        THEN [provider |-> provider, apiKey |-> settings[providerSetting].apiKey]
        ELSE IF fallbackSetting # 0
        THEN [provider |-> settings[fallbackSetting].provider,
              apiKey |-> settings[fallbackSetting].apiKey]
        ELSE [provider |-> "pollinations", apiKey |-> ""]

\* The selection with the named provider called whatever its setting says.
SelectImageProviderNamedFirst(settings, named) ==
    LET provider == IF named = "" THEN "pollinations" ELSE named
        providerSetting == FirstOf({key \in DOMAIN settings :
                settings[key].provider = provider})
    IN  IF providerSetting # 0
        THEN [provider |-> provider, apiKey |-> settings[providerSetting].apiKey]
        ELSE [provider |-> provider, apiKey |-> ""]

\* The selection with a cooldown: a provider whose latest call failed less
\* than a minute ago is passed over for the free provider.
SelectImageProviderCoolsDown(settings, named) ==
    LET provider == IF named = "" THEN "pollinations" ELSE named
        cool(s) == ~(lastFailure.provider = s.provider /\ now - lastFailure.at < 60)
        providerSetting ==
            FirstOf({key \in DOMAIN settings :
                    /\ settings[key].provider = provider
                    /\ settings[key].isConnected
                    /\ cool(settings[key])})
        fallbackSetting ==
            FirstOf({key \in DOMAIN settings :
                    /\ settings[key].provider \in ImageFallbackProviders
                    /\ settings[key].isConnected
                    /\ cool(settings[key])})
    IN  IF provider \in FREE_IMAGE_PROVIDERS
        THEN [provider |-> provider, apiKey |-> ""]
        ELSE IF providerSetting # 0
        THEN [provider |-> provider, apiKey |-> settings[providerSetting].apiKey]
        ELSE IF fallbackSetting # 0
        THEN [provider |-> settings[fallbackSetting].provider,
              apiKey |-> settings[fallbackSetting].apiKey]
        ELSE [provider |-> "pollinations", apiKey |-> ""]

\* POST /api/generate/image up to the call of generateImage: the provider
\* and the key the request is served with.
SelectImageProvider(settings, named) ==
    LET provider == IF named = "" THEN "pollinations" ELSE named
        providerSetting ==
            FirstOf({key \in DOMAIN settings :
                    /\ settings[key].provider = provider
                    /\ settings[key].isConnected})
        fallbackSetting ==
            FirstOf({key \in DOMAIN settings :
                    /\ settings[key].provider \in ImageFallbackProviders
                    /\ settings[key].isConnected})
    IN  IF provider \in FREE_IMAGE_PROVIDERS
        THEN [provider |-> provider, apiKey |-> ""]
        ELSE IF providerSetting # 0
        THEN [provider |-> provider, apiKey |-> settings[providerSetting].apiKey]
        ELSE IF fallbackSetting # 0
        THEN [provider |-> settings[fallbackSetting].provider,
              apiKey |-> settings[fallbackSetting].apiKey]
        ELSE [provider |-> "pollinations", apiKey |-> ""]

\* POST /api/generate/video up to the call of generateVideo; "placeholder"
\* when no video provider is connected.
SelectVideoProvider(settings, named) ==
    LET provider == IF named = "" THEN "runway" ELSE named
        providerSetting ==
            FirstOf({key \in DOMAIN settings :
                    /\ settings[key].provider = provider
                    /\ settings[key].isConnected})
        fallbackSetting ==
            FirstOf({key \in DOMAIN settings :
                    /\ settings[key].provider \in VideoFallbackProviders
                    /\ settings[key].isConnected})
    IN  IF providerSetting # 0
        THEN [provider |-> provider, apiKey |-> settings[providerSetting].apiKey]
        ELSE IF fallbackSetting # 0
        THEN [provider |-> settings[fallbackSetting].provider,
              apiKey |-> settings[fallbackSetting].apiKey]
        ELSE [provider |-> "placeholder", apiKey |-> ""]

SelectProvider(kind, settings, named) ==
    IF kind = "image" THEN SelectImageProvider(settings, named)
    ELSE SelectVideoProvider(settings, named)

NoResponse ==
    [status |-> 0, success |-> "none", provider |-> "none", mediaUrl |-> "none",
     jobId |-> "none", error |-> "none"]

\* The handler's local `result` before the call has returned.
NoResult ==
    [success |-> FALSE, mediaUrl |-> "none", jobId |-> "none", error |-> "no call"]

\* A request: the handler's position, the body it parsed, its locals
\* (provider, apiKey, result), the calls it has made and its response.
IdleRequest ==
    [pc |-> "idle", kind |-> "none", tileId |-> "none", named |-> "",
     prompt |-> "none", ref |-> FALSE, provider |-> "none", apiKey |-> "",
     tried |-> <<>>, result |-> NoResult, res |-> NoResponse]

\* The response with the failure branch left out.
GenerateResponseSwallowsFailure(result, provider) ==
    IF result.jobId # "none"
    THEN [status |-> 200, success |-> "true", provider |-> provider,
          mediaUrl |-> "none", jobId |-> result.jobId, error |-> "none"]
    ELSE [status |-> 200, success |-> "true", provider |-> provider,
          mediaUrl |-> result.mediaUrl, jobId |-> "none", error |-> "none"]

\* The response of the generation endpoints to the result of the call.
GenerateResponse(result, provider) ==
    IF ~result.success
    THEN [status |-> 500, success |-> "false", provider |-> provider,
          mediaUrl |-> "none", jobId |-> "none", error |-> result.error]
    ELSE IF result.jobId # "none"
    THEN [status |-> 200, success |-> "true", provider |-> provider,
          mediaUrl |-> "none", jobId |-> result.jobId, error |-> "none"]
    ELSE [status |-> 200, success |-> "true", provider |-> provider,
          mediaUrl |-> result.mediaUrl, jobId |-> "none", error |-> "none"]

\* The settings with the called provider's setting disconnected by a failure.
SettingsAfterCallTracksFailure(settings, provider, result) ==
    LET k == FirstOf({key \in DOMAIN settings : settings[key].provider = provider})
    IN  IF ~result.success /\ k # 0
        THEN Put(settings, k, Merge(settings[k], [isConnected |-> FALSE]))
        ELSE settings

\* The settings with the called provider's setting stamped by a success.
SettingsAfterCallStampsSuccess(settings, provider, result) ==
    LET k == FirstOf({key \in DOMAIN settings : settings[key].provider = provider})
    IN  IF result.success /\ k # 0
        THEN Put(settings, k, Merge(settings[k], [status |-> "active"]))
        ELSE settings

\* The settings after a generation call has returned: the handlers write no
\* setting, whatever the result.
SettingsAfterCall(settings, provider, result) == settings

\* A generation request arrives: the body is parsed, the provider selected
\* and generateImage / generateVideo called.
GenStart(r, kind, bodyOk, named, tileId, prompt, ref) ==
    /\ genReq[r].pc \in {"idle", "done"}
    /\ IF ~bodyOk
       THEN genReq' = [genReq EXCEPT ![r] =
                [IdleRequest EXCEPT !.pc = "done", !.kind = kind,
                                    !.res = [NoResponse EXCEPT !.status = 400]]]
       ELSE LET sel == SelectProvider(kind, apiSettings, named)
            IN  genReq' = [genReq EXCEPT ![r] =
                    [IdleRequest EXCEPT
                        !.pc = IF sel.provider = "placeholder" THEN "waiting" ELSE "calling",
                        !.kind = kind, !.tileId = tileId, !.named = named,
                        !.prompt = prompt, !.ref = ref,
                        !.provider = sel.provider, !.apiKey = sel.apiKey,
                        !.tried = IF sel.provider = "placeholder" THEN <<>>
                                  ELSE <<[provider |-> sel.provider,
                                          apiKey |-> sel.apiKey]>>]]
    /\ UNCHANGED <<apiSettings, nextId, jobStore>>

\* The result of the call a request is waiting for.
CallResult(q, reply, jobId) ==
    IF q.kind = "image"
    THEN GenerateImage(q.provider, q.prompt, q.apiKey, reply, jobId)
    ELSE GenerateVideo(q.provider, q.apiKey, q.ref, reply, jobId)

\* The call returns, and a failed image call is followed by a call of the
\* free provider before anything is sent.
GenFinishTriesNext(r, reply, jobId) ==
    LET q == genReq[r]
        result == CallResult(q, reply, jobId)
    IN  /\ q.pc = "calling"
        /\ UNCHANGED <<apiSettings, nextId>>
        /\ IF ~result.success /\ q.kind = "image" /\ q.provider # "pollinations"
           THEN /\ genReq' = [genReq EXCEPT ![r] =
                        [q EXCEPT !.provider = "pollinations", !.apiKey = "",
                                  !.tried = Append(q.tried,
                                      [provider |-> "pollinations", apiKey |-> ""])]]
                /\ UNCHANGED jobStore
           ELSE /\ jobStore' = IF result.success /\ result.jobId # "none"
                               THEN StoreJob(jobStore, q.tileId, q.provider,
                                             result.jobId, q.kind)
                               ELSE jobStore
                /\ genReq' = [genReq EXCEPT ![r] =
                        [q EXCEPT !.pc = "done", !.named = "", !.prompt = "none",
                                  !.ref = FALSE, !.result = result,
                                  !.res = GenerateResponse(result, q.provider)]]

\* The call returns: a job is stored, the response sent.
GenFinish(r, reply, jobId) ==
    LET q == genReq[r]
        result == CallResult(q, reply, jobId)
    IN  /\ q.pc = "calling"
        /\ apiSettings' = SettingsAfterCall(apiSettings, q.provider, result)
        /\ jobStore' = IF result.success /\ result.jobId # "none"
                       THEN StoreJob(jobStore, q.tileId, q.provider, result.jobId, q.kind)
                       ELSE jobStore
        /\ genReq' = [genReq EXCEPT ![r] =
                [q EXCEPT !.pc = "done", !.named = "", !.prompt = "none",
                          !.ref = FALSE, !.result = result,
                          !.res = GenerateResponse(result, q.provider)]]
        /\ UNCHANGED nextId

\* The video endpoint's placeholder, sent after two seconds when no video
\* provider is connected.
PlaceholderFinish(r) ==
    LET q == genReq[r]
    IN  /\ q.pc = "waiting"
        /\ genReq' = [genReq EXCEPT ![r] =
                [q EXCEPT !.pc = "done", !.named = "", !.prompt = "none", !.ref = FALSE,
                          !.res = [status |-> 200, success |-> "true",
                                   provider |-> "placeholder", mediaUrl |-> "picsum-url",
                                   jobId |-> "none", error |-> "none"]]]
        /\ UNCHANGED <<apiSettings, nextId, jobStore>>

\* ---------------------------------------------- routes.ts: job status

NoJob == [provider |-> "none", jobId |-> "none", tileId |-> "none", type |-> "none"]

NoStatus == [code |-> 0, status |-> "none", mediaUrl |-> "none", error |-> "none",
             provider |-> "none", type |-> "none"]

\* A status request: the handler's position, its locals (job, apiKey), the
\* vendor's answer and whether the vendor was called, and the response.
IdlePoll ==
    [pc |-> "idle", tileId |-> "none", job |-> NoJob, apiKey |-> "",
     called |-> FALSE, reply |-> "none", res |-> NoStatus]

\* The response of the status endpoint, and the job store after it.
StatusResponse(job, status) ==
    [code |-> 200, status |-> status.status, mediaUrl |-> status.mediaUrl,
     error |-> status.error, provider |-> job.provider, type |-> job.type]

\* The job store after a status when only a completed job is removed.
JobsAfterStatusKeepsFailed(jobs, tileId, status) ==
    IF status.status \in {"completed"} THEN RemoveJob(jobs, tileId) ELSE jobs

JobsAfterStatus(jobs, tileId, status) ==
    IF status.status \in {"completed", "failed"} THEN RemoveJob(jobs, tileId) ELSE jobs

\* GET /api/generate/status/:tileId up to the call of the vendor: 404 when
\* the tile has no job; the key is that of the first setting of the job's
\* provider, connected or not; checkJobStatus returns at once when it
\* calls no vendor.
PollStart(tileId) ==
    /\ poll.pc \in {"idle", "done"}
    /\ IF ~HasJob(jobStore, tileId)
       THEN /\ poll' = [IdlePoll EXCEPT !.pc = "done", !.tileId = tileId,
                                        !.res = [NoStatus EXCEPT !.code = 404]]
            /\ UNCHANGED jobStore
       ELSE LET job == jobStore[tileId]
                providerSetting ==
                    FirstOf({key \in DOMAIN apiSettings :
                            apiSettings[key].provider = job.provider})
                apiKey == IF providerSetting = 0 THEN ""
                          ELSE apiSettings[providerSetting].apiKey
                status == CheckJobStatus(job.provider, job.jobId, apiKey, "none")
            IN  IF CallsVendor(job.provider, apiKey)
                THEN /\ poll' = [IdlePoll EXCEPT !.pc = "checking", !.tileId = tileId,
                                                 !.job = job, !.apiKey = apiKey,
                                                 !.called = TRUE]
                     /\ UNCHANGED jobStore
                ELSE /\ poll' = [IdlePoll EXCEPT !.pc = "done", !.tileId = tileId,
                                                 !.job = job, !.apiKey = apiKey,
                                                 !.res = StatusResponse(job, status)]
                     /\ jobStore' = JobsAfterStatus(jobStore, tileId, status)
    /\ UNCHANGED <<apiSettings, nextId, genReq>>

\* The vendor's status call returns: a completed or failed job is removed
\* from the store under the tile's id, the response sent.
PollFinish(reply) ==
    LET status == CheckJobStatus(poll.job.provider, poll.job.jobId, poll.apiKey, reply)
    IN  /\ poll.pc = "checking"
        /\ jobStore' = JobsAfterStatus(jobStore, poll.tileId, status)
        /\ poll' = [poll EXCEPT !.pc = "done", !.reply = reply,
                                !.res = StatusResponse(poll.job, status)]
        /\ UNCHANGED <<apiSettings, nextId, genReq>>

\* ------------------------------------------------------ clock and history

Tick ==
    /\ now + TickSeconds <= MaxNow
    /\ now' = now + TickSeconds

NoFailure == [provider |-> "none", error |-> "none", at |-> 0]

\* The history of generation calls: lastFailure is the latest failed call
\* (forgotten once the same provider succeeds), everFailed the providers that
\* have failed at least once.
RecordResult(r, reply, jobId) ==
    LET q == genReq[r]
        result == CallResult(q, reply, jobId)
    IN  IF result.success
        THEN /\ lastFailure' = IF lastFailure.provider = q.provider
                               THEN NoFailure ELSE lastFailure
             /\ UNCHANGED everFailed
        ELSE /\ lastFailure' = [provider |-> q.provider, error |-> result.error,
                                at |-> now]
             /\ everFailed' = everFailed \cup {q.provider}

history == <<now, lastFailure, everFailed>>

\* What the settings and generation endpoints leave alone.
rest == <<poll, everStored, entities, crudRes, submitted, crudReq, settingsRes, validatedKeys, client>>

\* The providers that have a connected setting.
ConnectedProviders(settings) ==
    {settings[k].provider : k \in {j \in DOMAIN settings : settings[j].isConnected}}

\* generateMutation at rest.
IdleMutation == [pc |-> "idle", tileId |-> 0, type |-> "none", timelineId |-> 0,
                 position |-> 0, provider |-> "none"]

\* ------------------------------------------------------------ specification

Init ==
    /\ apiSettings = EmptyMap
    /\ nextId = 1
    /\ jobStore = EmptyMap
    /\ genReq = [r \in Requests |-> IdleRequest]
    /\ now = 0
    /\ lastFailure = NoFailure
    /\ everFailed = {}
    /\ atRequest = {}
    /\ poll = IdlePoll
    /\ everStored = {}
    /\ timelines = EmptyMap
    /\ tiles = EmptyMap
    /\ tileLinks = EmptyMap
    /\ linkedSegments = EmptyMap
    /\ audioTracks = EmptyMap
    /\ audioClips = EmptyMap
    /\ crudRes = [code |-> 0, id |-> 0]
    /\ submitted = EmptyMap
    /\ crudReq = [method |-> "", path |-> "", id |-> 0, gone |-> {}]
    /\ settingsRes = NoSettingsResponse
    /\ validatedKeys = {}
    /\ cTimelines = EmptyMap
    /\ cTiles = EmptyMap
    /\ cLinkedSegments = <<>>
    /\ pendingJobs = {}
    /\ mutation = IdleMutation
    /\ requests = {}
    /\ timeouts = {}
    /\ polling = 0

\* A generation request of either kind: generateImage takes no reference
\* image into account and generateVideo no prompt.
GenRequest(r, kinds, names, tileIds) ==
    /\ \E kind \in kinds, ok \in BOOLEAN, named \in names, tileId \in tileIds :
        \/ /\ kind = "image"
           /\ \E prompt \in Prompts : GenStart(r, kind, ok, named, tileId, prompt, FALSE)
        \/ /\ kind = "video"
           /\ \E ref \in BOOLEAN :
                GenStart(r, kind, ok, named, tileId, WellFormedPrompt, ref)
    /\ atRequest' = ConnectedProviders(apiSettings)

\* The settings saved and deleted, and the generation endpoints.
NextGen ==
    \/ /\ \E p \in PostProviders, k \in ApiKeys, v \in {"ok", "401"} :
            PostSetting([provider |-> p, apiKey |-> k], v)
       /\ UNCHANGED <<history, atRequest, rest>>
    \/ /\ \E p \in SavedProviders : DeleteSetting(p)
       /\ UNCHANGED <<history, atRequest, rest>>
    \/ /\ \E r \in Requests : GenRequest(r, {"image", "video"}, RequestProviders, {"t1"})
       /\ UNCHANGED <<history, rest>>
    \/ /\ \E r \in Requests, reply \in VendorReplies : GenFinish(r, reply, "j1")
       /\ UNCHANGED <<history, atRequest, rest>>
    \/ /\ \E r \in Requests : PlaceholderFinish(r)
       /\ UNCHANGED <<history, atRequest, rest>>

SpecGen == Init /\ [][NextGen]_vars

\* The settings saved, patched and deleted, and the image endpoint.
NextGenPatch ==
    \/ /\ \E p \in SavedProviders, k \in ApiKeys, v \in ValidationReplies :
            PostSetting([provider |-> p, apiKey |-> k], v)
       /\ UNCHANGED <<history, atRequest, rest>>
    \/ /\ \E id \in 0..MaxIds, u \in SettingPatches, v \in ValidationReplies :
            PatchSetting(id, u, v)
       /\ UNCHANGED <<history, atRequest, rest>>
    \/ /\ \E p \in SavedProviders : DeleteSetting(p)
       /\ UNCHANGED <<history, atRequest, rest>>
    \/ /\ \E r \in Requests : GenRequest(r, {"image"}, RequestProviders, {"t1"})
       /\ UNCHANGED <<history, rest>>
    \/ /\ \E r \in Requests, reply \in VendorReplies : GenFinish(r, reply, "j1")
       /\ UNCHANGED <<history, atRequest, rest>>

SpecGenPatch == Init /\ [][NextGenPatch]_vars

\* The generation endpoints with the clock and the history of their calls;
\* every provider's key is saved once and kept, so that a provider name
\* denotes one provider instance throughout.
NextStatus ==
    \/ /\ \E p \in SavedProviders, k \in ApiKeys, v \in {"ok", "401"} :
            /\ SaveDrawsId(apiSettings, [provider |-> p])
            /\ PostSetting([provider |-> p, apiKey |-> k], v)
       /\ UNCHANGED <<history, atRequest, rest>>
    \/ /\ \E r \in Requests : GenRequest(r, {"image", "video"}, RequestProviders, {"t1"})
       /\ UNCHANGED <<history, rest>>
    \/ \E r \in Requests, reply \in {"http_402", "http_429", "ok_media", "ok_job"} :
            /\ GenFinish(r, reply, "j1")
            /\ RecordResult(r, reply, "j1")
            /\ UNCHANGED <<now, atRequest, rest>>
    \/ /\ \E r \in Requests : PlaceholderFinish(r)
       /\ UNCHANGED <<history, atRequest, rest>>
    \/ /\ Tick
       /\ UNCHANGED <<apiSettings, nextId, jobStore, genReq, lastFailure, everFailed,
                      atRequest, rest>>

SpecStatus == Init /\ [][NextStatus]_vars

\* The generation endpoints of the providers that answer with jobs, and the
\* status endpoint; requests carry the well-formed prompt, videos a
\* reference image.
NextJobs ==
    \/ /\ \E p \in {"flux", "runway"}, k \in ApiKeys, v \in {"ok"} :
            PostSetting([provider |-> p, apiKey |-> k], v)
       /\ UNCHANGED <<history, atRequest, rest>>
    \/ /\ \E p \in {"flux", "runway"} : DeleteSetting(p)
       /\ UNCHANGED <<history, atRequest, rest>>
    \/ /\ \E r \in Requests, kind \in {"image", "video"}, ok \in BOOLEAN,
                named \in {"flux", "runway"} :
            GenStart(r, kind, ok, named, "t1", WellFormedPrompt, kind = "video")
       /\ atRequest' = ConnectedProviders(apiSettings)
       /\ UNCHANGED <<history, rest>>
    \/ /\ \E r \in Requests, reply \in {"ok_job", "http_500"}, j \in JobIds :
            GenFinish(r, reply, j)
       /\ everStored' = everStored \cup DOMAIN jobStore'
       /\ UNCHANGED <<history, atRequest, poll, entities, crudRes, submitted, crudReq, settingsRes, validatedKeys, client>>
    \/ /\ \E r \in Requests : PlaceholderFinish(r)
       /\ UNCHANGED <<history, atRequest, rest>>
    \/ /\ \E t \in TileIds : PollStart(t)
       /\ UNCHANGED <<history, atRequest, everStored, entities, crudRes, submitted, crudReq, settingsRes, validatedKeys, client>>
    \/ /\ \E reply \in StatusReplies : PollFinish(reply)
       /\ UNCHANGED <<history, atRequest, everStored, entities, crudRes, submitted, crudReq, settingsRes, validatedKeys, client>>

SpecJobs == Init /\ [][NextJobs]_vars

\* The history of the entity routes: what was posted under an id, with the
\* schema's defaults, and patched since; forgotten once the record is gone
\* from its store.
StoredIds ==
    DOMAIN timelines \cup DOMAIN tiles \cup DOMAIN tileLinks
        \cup DOMAIN linkedSegments \cup DOMAIN audioTracks \cup DOMAIN audioClips

Kept(m) == [k \in DOMAIN m \cap StoredIds' |-> m[k]]

Posted(type, insert) ==
    submitted' =
        IF crudRes'.code = 201
        THEN Put(submitted, crudRes'.id,
                 [type |-> type, rec |-> Merge(insert, [id |-> crudRes'.id])])
        ELSE submitted

Patched(id, updates) ==
    submitted' =
        IF crudRes'.code = 200 /\ id \in DOMAIN submitted
        THEN Put(submitted, id,
                 [submitted[id] EXCEPT !.rec = Merge(submitted[id].rec, updates)])
        ELSE submitted

Deleted == submitted' = Kept(submitted)

Asked(method, path, id) ==
    crudReq' = [method |-> method, path |-> path, id |-> id,
                gone |-> StoredIds \ StoredIds']

generation ==
    <<apiSettings, jobStore, genReq, history, atRequest, poll, everStored,
      settingsRes, validatedKeys, client>>

RecordIds == 1..MaxRecords

\* The entity routes.
NextCrud ==
    \/ /\ \E b \in TimelineBodies \cup {BadBody} :
            /\ PostTimelines(b)
            /\ Posted("timeline", ParseTimeline(b))
            /\ Asked("POST", "timelines", 0)
       /\ UNCHANGED generation
    \/ /\ \E id \in RecordIds, u \in TimelinePatches :
            PatchTimelines(id, u) /\ Patched(id, u) /\ Asked("PATCH", "timelines", id)
       /\ UNCHANGED generation
    \/ /\ \E id \in RecordIds :
            DeleteTimelines(id) /\ Deleted /\ Asked("DELETE", "timelines", id)
       /\ UNCHANGED generation
    \/ /\ \E b \in TileBodies \cup {BadBody} :
            PostTiles(b) /\ Posted("tile", ParseTile(b)) /\ Asked("POST", "tiles", 0)
       /\ UNCHANGED generation
    \/ /\ \E id \in RecordIds, u \in TilePatches :
            PatchTiles(id, u) /\ Patched(id, u) /\ Asked("PATCH", "tiles", id)
       /\ UNCHANGED generation
    \/ /\ \E id \in RecordIds : DeleteTiles(id) /\ Deleted /\ Asked("DELETE", "tiles", id)
       /\ UNCHANGED generation
    \/ /\ \E b \in TileLinkBodies \cup {BadBody} :
            PostTileLinks(b) /\ Posted("tileLink", b) /\ Asked("POST", "tile-links", 0)
       /\ UNCHANGED generation
    \/ /\ \E id \in RecordIds :
            DeleteTileLinks(id) /\ Deleted /\ Asked("DELETE", "tile-links", id)
       /\ UNCHANGED generation
    \/ /\ ClearTileLinks /\ Deleted /\ Asked("DELETE", "tile-links", 0)
       /\ UNCHANGED generation
    \/ /\ \E b \in LinkedSegmentBodies \cup {BadBody} :
            /\ PostLinkedSegments(b)
            /\ Posted("linkedSegment", b)
            /\ Asked("POST", "linked-segments", 0)
       /\ UNCHANGED generation
    \/ /\ \E id \in RecordIds :
            DeleteLinkedSegments(id) /\ Deleted /\ Asked("DELETE", "linked-segments", id)
       /\ UNCHANGED generation
    \/ /\ \E p \in {0, 1} :
            /\ DeleteLinkedSegmentsAt(1, p)
            /\ Deleted
            /\ Asked("DELETE", "linked-segments?timelineId=1&position", p)
       /\ UNCHANGED generation
    \/ /\ ClearLinkedSegments /\ Deleted /\ Asked("DELETE", "linked-segments", 0)
       /\ UNCHANGED generation
    \/ /\ \E b \in AudioTrackBodies \cup {BadBody} :
            /\ PostAudioTracks(b)
            /\ Posted("audioTrack", ParseAudioTrack(b))
            /\ Asked("POST", "audio-tracks", 0)
       /\ UNCHANGED generation
    \/ /\ \E id \in RecordIds, u \in AudioTrackPatches :
            PatchAudioTracks(id, u) /\ Patched(id, u) /\ Asked("PATCH", "audio-tracks", id)
       /\ UNCHANGED generation
    \/ /\ \E id \in RecordIds :
            DeleteAudioTracks(id) /\ Deleted /\ Asked("DELETE", "audio-tracks", id)
       /\ UNCHANGED generation
    \/ /\ \E b \in AudioClipBodies \cup {BadBody} :
            /\ PostAudioClips(b)
            /\ Posted("audioClip", ParseAudioClip(b))
            /\ Asked("POST", "audio-clips", 0)
       /\ UNCHANGED generation
    \/ /\ \E id \in RecordIds, u \in AudioClipPatches :
            PatchAudioClips(id, u) /\ Patched(id, u) /\ Asked("PATCH", "audio-clips", id)
       /\ UNCHANGED generation
    \/ /\ \E id \in RecordIds :
            DeleteAudioClips(id) /\ Deleted /\ Asked("DELETE", "audio-clips", id)
       /\ UNCHANGED generation

SpecCrud == Init /\ [][NextCrud]_vars

\* The history of the settings routes: the response sent, and the keys that
\* validateApiKey was called with and found valid.
Validated(called, provider, apiKey, reply) ==
    validatedKeys' =
        IF called /\ ValidateApiKey(provider, apiKey, reply)
        THEN validatedKeys \cup {<<provider, apiKey>>}
        ELSE validatedKeys

ValidatesPatch(id, updates) ==
    /\ "apiKey" \in DOMAIN updates
    /\ updates.apiKey # ""
    /\ GetApiSettingById(apiSettings, id) # 0

unsettled ==
    <<history, atRequest, poll, everStored, entities, crudRes, submitted, crudReq, client>>

\* The settings routes.
NextSettings ==
    \/ /\ \E body \in SettingsPostBodies, v \in SettingsReplies :
            /\ PostSetting(body, v)
            /\ settingsRes' = PostSettingResponse(apiSettings, nextId, body, v)
            /\ Validated(body.provider \in aiProviders, body.provider, body.apiKey, v)
       /\ UNCHANGED unsettled
    \/ /\ \E id \in 1..MaxIds, v \in SettingsReplies, u \in SettingsPatchBodies :
            /\ PatchSetting(id, u, v)
            /\ settingsRes' = PatchSettingResponse(apiSettings, id, u, v)
            /\ IF ValidatesPatch(id, u)
               THEN Validated(TRUE, apiSettings[id].provider, u.apiKey, v)
               ELSE UNCHANGED validatedKeys
       /\ UNCHANGED unsettled
    \/ /\ \E id \in 1..MaxIds :
            /\ DeleteSettingById(id)
            /\ settingsRes' = DeleteSettingResponse(apiSettings, id)
       /\ UNCHANGED <<unsettled, validatedKeys>>

SpecSettings == Init /\ [][NextSettings]_vars

\* The generation and status routes with one provider that answers with jobs.
NextPolls ==
    \/ /\ PostSetting([provider |-> "runway", apiKey |-> "sk-0123456789abcdefghijk"], "ok")
       /\ UNCHANGED <<history, atRequest, rest>>
    \/ /\ \E r \in Requests : GenRequest(r, {"image", "video"}, {"runway"}, {"t1"})
       /\ UNCHANGED <<history, rest>>
    \/ /\ \E r \in Requests, reply \in {"ok_job", "http_500"} : GenFinish(r, reply, "j1")
       /\ everStored' = everStored \cup DOMAIN jobStore'
       /\ UNCHANGED <<history, atRequest, poll, entities, crudRes, submitted, crudReq,
                      settingsRes, validatedKeys, client>>
    \/ /\ \E r \in Requests : PlaceholderFinish(r)
       /\ UNCHANGED <<history, atRequest, rest>>
    \/ /\ \E t \in TileIds : PollStart(t)
       /\ UNCHANGED <<history, atRequest, everStored, entities, crudRes, submitted,
                      crudReq, settingsRes, validatedKeys, client>>
    \/ /\ \E reply \in {"succeeded", "running"} : PollFinish(reply)
       /\ UNCHANGED <<history, atRequest, everStored, entities, crudRes, submitted,
                      crudReq, settingsRes, validatedKeys, client>>

\* No entity request, no settings request, no generation or status request
\* has been answered yet.
EntitiesAtRest == crudReq.method = ""

SettingsAtRest == settingsRes = NoSettingsResponse

JobsAtRest ==
    /\ genReq = [r \in Requests |-> IdleRequest]
    /\ poll = IdlePoll
    /\ jobStore = EmptyMap

\* All the routes. The entity routes, the settings routes and the generation
\* routes read and write stores of their own (the generation routes read
\* the settings), so each family is run from the initial state, the others
\* at rest.
NextApi ==
    \/ SettingsAtRest /\ JobsAtRest /\ apiSettings = EmptyMap /\ NextCrud
    \/ EntitiesAtRest /\ JobsAtRest /\ NextSettings
    \/ EntitiesAtRest /\ SettingsAtRest /\ NextPolls

SpecApi == Init /\ [][NextApi]_vars

\* ---------------------------------------------- the claims: vocabulary

\* A request arrives and its handler gets as far as its call, or its wait.
Arriving(r) ==
    /\ genReq[r].pc \in {"idle", "done"}
    /\ genReq'[r].pc \in {"calling", "waiting"}

\* The call of a request returns and the response is sent.
Finishing(r) ==
    /\ genReq[r].pc = "calling"
    /\ genReq'[r].pc = "done"

\* The id of the setting stored for a provider, 0 when there is none.
SettingOf(settings, provider) ==
    FirstOf({key \in DOMAIN settings : settings[key].provider = provider})

FallbackList(kind) ==
    IF kind = "image" THEN ImageFallbackProviders ELSE VideoFallbackProviders

\* The provider a request names, the endpoint's default when it names none.
NamedOrDefault(q) ==
    IF q.named # "" THEN q.named
    ELSE IF q.kind = "image" THEN "pollinations" ELSE "runway"

\* The candidates the specification's fallback loop would walk for a
\* request: the connected providers of the endpoint's kind and, for an
\* image, the free provider.
SpecCandidates(kind, connected) ==
    (connected \cap FallbackList(kind))
        \cup (IF kind = "image" THEN FREE_IMAGE_PROVIDERS ELSE {})

TriedProviders(q) == {q.tried[i].provider : i \in 1..Len(q.tried)}

\* The specification's provider status, read off a stored setting.
StatusOf(s) == IF "status" \in DOMAIN s THEN s.status ELSE "undefined"

FailureMetadata(s) == DOMAIN s \cap {"lastFailureAt", "lastFailureReason"}

\* The specification's classes of error text, read on the only texts the
\* vendor calls produce: "<vendor> API error: <HTTP status>". 402 (payment
\* required) is taken for the quota/billing class, 429 (too many requests)
\* for the rate-limit class.
IsQuotaError(error) == error = "API error: 402"

IsRateLimitError(error) == error = "API error: 429"

\* ------------------------------------------------------------------- C1

Blocked(provider) ==
    lastFailure.provider = provider /\ IsRateLimitError(lastFailure.error)

Depleted(provider) ==
    lastFailure.provider = provider /\ IsQuotaError(lastFailure.error)

C6_NamedProviderFirst ==
    [][\A r \in Requests :
        LET q == genReq'[r]
        IN  (Arriving(r) /\ q.named # "")
                => /\ q.tried # <<>>
                   /\ q.tried[1].provider = q.named
      ]_vars

\* C6 (amended): the provider a request names is the one called when it is
\* the free image provider or has a connected setting; when it is neither,
\* it is not called: the request goes to a connected provider of the
\* endpoint's fallback list, else to the free provider (image) or to the
\* placeholder without any call (video).
C6_NamedProviderWhenConnected ==
    [][\A r \in Requests :
        LET q == genReq'[r]
            usable == \/ q.kind = "image" /\ q.named \in FREE_IMAGE_PROVIDERS
                      \/ q.named \in ConnectedProviders(apiSettings)
            others == ConnectedProviders(apiSettings) \cap FallbackList(q.kind)
        IN  (Arriving(r) /\ q.named # "")
                => IF usable
                   THEN q.pc = "calling" /\ TriedProviders(q) = {q.named}
                   ELSE /\ q.named \notin TriedProviders(q)
                        /\ IF others # {}
                           THEN q.pc = "calling" /\ TriedProviders(q) \subseteq others
                           ELSE IF q.kind = "image"
                           THEN q.pc = "calling"
                                /\ TriedProviders(q) = FREE_IMAGE_PROVIDERS
                           ELSE q.pc = "waiting" /\ q.tried = <<>>
      ]_vars

\* C6 witness: a request that names a provider without a setting is in the
\* call of the free provider.
C6_NamedButNotCalled ==
    \E r \in Requests :
        LET q == genReq[r]
        IN  /\ q.pc = "calling"
            /\ q.named = "stability"
            /\ q.provider = "pollinations"
            /\ SettingOf(apiSettings, "stability") = 0

\* ------------------------------------------------------------------- C7

\* C7 (as stated): an image request that arrives while no provider is
\* connected is served by the free provider with an empty key and succeeds,
\* and no provider but the free one is ever called with an empty key.
C7_FreeProviderServesAndSucceeds ==
    \A r \in Requests :
        LET q == genReq[r]
        IN  /\ (q.pc = "done" /\ q.kind = "image" /\ q.res.status # 400
                    /\ atRequest = {})
                => /\ q.tried = <<[provider |-> "pollinations", apiKey |-> ""]>>
                   /\ q.res.success = "true"
            /\ \A i \in 1..Len(q.tried) :
                    q.tried[i].apiKey = "" =>
                        q.tried[i].provider \in FREE_IMAGE_PROVIDERS

\* ------------------------------------------------------------------- C8

PollAnswering ==
    /\ poll'.pc = "done"
    /\ poll.pc = "done" => poll' # poll

\* C9 (as stated): once a job has been stored for a tile, every status
\* request for the tile calls the vendor and answers pending, processing,
\* completed or failed: completed for the vendor's success, failed for its
\* failure or a failed status call, a non-terminal status for the rest.
C9_EveryLaterPollAsksTheVendor ==
    [][(PollAnswering /\ poll'.tileId \in everStored)
        => /\ poll'.called
           /\ poll'.res.code = 200
           /\ poll'.res.status \in {"pending", "processing", "completed", "failed"}
           /\ poll'.reply \in {"succeeded", "succeeded_no_output"}
                => poll'.res.status = "completed"
           /\ poll'.reply \in {"failed", "http_error", "throws"}
                => poll'.res.status = "failed"
           /\ poll'.reply = "running" => poll'.res.status \in {"pending", "processing"}
      ]_vars

\* C9 (amended): a job id returned by the vendor is stored for the tile, in
\* place of any job the tile had. A status request for a tile that has a job
\* answers processing, completed or failed, never pending: failed without
\* any vendor call when no key is stored for the job's provider, else by the
\* vendor's answer (success: completed; failure or a failed status call:
\* failed; anything else: processing). A completed or failed answer removes
\* the tile's job; a request for a tile without a job answers 404 and calls
\* no vendor.
C9_PollWhileJobStored ==
    [][/\ \A r \in Requests :
            LET q == genReq'[r]
            IN  (Finishing(r) /\ q.result.success /\ q.result.jobId # "none")
                    => /\ HasJob(jobStore', q.tileId)
                       /\ jobStore'[q.tileId] =
                            [provider |-> q.provider, jobId |-> q.result.jobId,
                             tileId |-> q.tileId, type |-> q.kind]
       /\ PollAnswering =>
            LET t == poll'.tileId
                res == poll'.res
            IN  /\ res.code \in {200, 404}
                /\ res.code = 404 <=> (poll.pc # "checking" /\ ~HasJob(jobStore, t))
                /\ res.code = 404 => (~poll'.called /\ jobStore' = jobStore)
                /\ res.code = 200 =>
                    /\ res.status \in {"processing", "completed", "failed"}
                    /\ res.provider = poll'.job.provider
                    /\ poll'.called <=> poll'.apiKey # ""
                    /\ ~poll'.called => res.status = "failed"
                    /\ poll'.called =>
                        /\ poll'.reply \in {"succeeded", "succeeded_no_output"}
                                => res.status = "completed"
                        /\ poll'.reply \in {"failed", "http_error", "throws"}
                                => res.status = "failed"
                        /\ poll'.reply = "running" => res.status = "processing"
                    /\ res.status \in {"completed", "failed"} => ~HasJob(jobStore', t)
                    /\ res.status = "processing" => jobStore' = jobStore
      ]_vars

\* C9 witness: a status request for a tile that has had a job was answered
\* 404.
C9_LaterPollNotFound ==
    /\ poll.pc = "done"
    /\ poll.tileId \in everStored
    /\ poll.res.code = 404

\* What a GET answers for the record posted under an id: the record of
\* GET /api/<type>/:id where the route exists, the record's entry in the
\* list of GET /api/tile-links and GET /api/linked-segments otherwise.
Entry(list, id) ==
    LET hits == {i \in 1..Len(list) : list[i].id = id}
    IN  IF hits = {} THEN NotFound ELSE list[Least(hits)]

Returned(type, id) ==
    CASE type = "timeline" -> GetTimeline(id)
      [] type = "tile" -> GetTile(id)
      [] type = "tileLink" -> Entry(GetTileLinks, id)
      [] type = "linkedSegment" -> Entry(GetLinkedSegments, id)
      [] type = "audioTrack" -> GetAudioTrack(id)
      [] type = "audioClip" -> GetAudioClip(id)

\* A record without one of its fields.
Omit(rec, field) == [f \in DOMAIN rec \ {field} |-> rec[f]]

\* C10 as stated: for each of the six entity types, as long as a posted
\* record is stored, GET returns exactly the submitted field values (the
\* schema's defaults for the omitted ones) with the generated id,
\* overwritten by the fields patched since.
C10_GetReturnsWhatWasSubmitted ==
    \A id \in DOMAIN submitted :
        Returned(submitted[id].type, id) = submitted[id].rec

\* C10 as the code has it: the same for all six types, except that a linked
\* segment's order is not the submitted one; the server assigns it (0 for
\* the first segment, the largest stored order plus one afterwards) and
\* renumbers the stored segments 0, 1, 2, ... whenever one is deleted.
C10_GetReturnsSubmittedButSegmentOrder ==
    /\ DOMAIN submitted = StoredIds
    /\ \A id \in DOMAIN submitted :
        LET type == submitted[id].type
            got == Returned(type, id)
        IN  /\ got # NotFound
            /\ got.id = id
            /\ IF type = "linkedSegment"
               THEN Omit(got, "order") = Omit(submitted[id].rec, "order")
               ELSE got = submitted[id].rec
    /\ \A i \in 1..Len(GetLinkedSegments) : GetLinkedSegments[i].order = i - 1

\* C10 witness: after a POST or a DELETE, a stored linked segment that was
\* posted with order 0 is returned with order 1.
C10_SegmentOrderAssigned ==
    /\ \E id \in DOMAIN linkedSegments :
        /\ submitted[id].rec.order = 0
        /\ Returned("linkedSegment", id).order = 1
    /\ crudRes.code \in {201, 204}

\* The records of a store that do not carry a timeline's id.
NotOf(store, timelineId) ==
    [k \in {j \in DOMAIN store : store[j].timelineId # timelineId} |-> store[k]]

\* The linked segments are numbered 0, 1, 2, ... by order.
Renumbered(segments) ==
    {segments[k].order : k \in DOMAIN segments} = 0..(Cardinality(DOMAIN segments) - 1)

WithKey(settings, k, key) == [settings EXCEPT ![k] = Merge(settings[k], [apiKey |-> key])]

NonEmptyKeys == SettingsKeys \ {""}

\* The fields of a settings response that hold text.
TextFields == {"apiKey", "error", "provider"}

\* C14: no response of GET /api/settings, POST /api/settings or
\* PATCH /api/settings/:id holds a stored key, a non-empty key being shown
\* as the mask; and the response to any request is the same in two states
\* that differ only in the value of one stored non-empty key.
C14_ResponsesHideStoredKeys ==
    /\ DOMAIN settingsRes.body \subseteq
            {"id", "provider", "apiKey", "isConnected", "validated", "error", "none"}
    /\ \A f \in DOMAIN settingsRes.body \cap TextFields :
            settingsRes.body[f] \notin NonEmptyKeys
    /\ \A k \in DOMAIN apiSettings :
            GetSettings(apiSettings)[k].apiKey =
                IF apiSettings[k].apiKey = "" THEN "" ELSE KeyMask
    /\ \A k \in DOMAIN apiSettings, key \in NonEmptyKeys :
        apiSettings[k].apiKey # "" =>
            LET other == WithKey(apiSettings, k, key)
            IN  /\ GetSettings(other) = GetSettings(apiSettings)
                /\ \A body \in SettingsPostBodies, v \in SettingsReplies :
                        PostSettingResponse(other, nextId, body, v)
                          = PostSettingResponse(apiSettings, nextId, body, v)
                /\ \A id \in 1..MaxIds, v \in SettingsReplies, u \in SettingsPatchBodies :
                        PatchSettingResponse(other, id, u, v)
                          = PatchSettingResponse(apiSettings, id, u, v)

\* C14 witness: a setting with a non-empty key is stored and the response
\* sent last shows the mask in its place.
C14_MaskedKeySent ==
    /\ settingsRes.code \in {200, 201}
    /\ settingsRes.body.apiKey = KeyMask
    /\ \E k \in DOMAIN apiSettings :
        apiSettings[k].id = settingsRes.body.id /\ apiSettings[k].apiKey \in NonEmptyKeys

\* C15 as stated: every stored setting that is connected holds a key that
\* validateApiKey was called with, for the setting's provider, and found
\* valid.
C15_ConnectedKeysWereValidated ==
    \A k \in DOMAIN apiSettings :
        apiSettings[k].isConnected
            => <<apiSettings[k].provider, apiSettings[k].apiKey>> \in validatedKeys

\* Every store of the server, the job store among them.
stores ==
    <<timelines, tiles, tileLinks, linkedSegments, audioTracks, audioClips,
      apiSettings, jobStore>>

\* A POST of an entity route with a body its schema rejects.
RejectedEntityPost ==
    /\ crudReq'.method = "POST"
    /\ \/ PostTimelines(BadBody)
       \/ PostTiles(BadBody)
       \/ PostTileLinks(BadBody)
       \/ PostLinkedSegments(BadBody)
       \/ PostAudioTracks(BadBody)
       \/ PostAudioClips(BadBody)

\* C12: a POST on timelines, tiles, tile-links, linked-segments,
\* audio-tracks, audio-clips, settings or generate/image and generate/video
\* whose body fails the schema is answered 400 and leaves every store and
\* the job store as they were.
C12_RejectedCreateChangesNothing ==
    [][/\ RejectedEntityPost => (crudRes'.code = 400 /\ UNCHANGED stores)
       /\ settingsRes'.method = "POST" =>
            \A body \in SettingsPostBodies, v \in SettingsReplies :
                (/\ body.provider \notin aiProviders
                 /\ PostSetting(body, v)
                 /\ settingsRes' = PostSettingResponse(apiSettings, nextId, body, v))
                    => (settingsRes'.code = 400 /\ UNCHANGED stores)
       /\ \A r \in Requests, kind \in {"image", "video"} :
            GenStart(r, kind, FALSE, "", "none", "none", FALSE)
                => /\ genReq'[r].pc = "done"
                   /\ genReq'[r].res.status = 400
                   /\ UNCHANGED stores
      ]_vars

\* C12 witness: with a record in storage, a POST of an entity route has
\* been answered 400.
C12_CreateRejected ==
    /\ crudReq.method = "POST"
    /\ crudRes.code = 400
    /\ StoredIds # {}

\* The store behind the path of an entity route.
StoreOf(path) ==
    CASE path = "timelines" -> timelines
      [] path = "tiles" -> tiles
      [] path = "tile-links" -> tileLinks
      [] path = "linked-segments" -> linkedSegments
      [] path = "audio-tracks" -> audioTracks
      [] path = "audio-clips" -> audioClips

ByPosition == "linked-segments?timelineId=1&position"

\* The entity request being answered is a PATCH or DELETE of one record by
\* id, and no record of that id is stored.
MissingById ==
    /\ crudReq'.method \in {"PATCH", "DELETE"}
    /\ crudReq'.path # ByPosition
    /\ crudReq'.id # 0
    /\ crudReq'.id \notin DOMAIN StoreOf(crudReq'.path)

\* The entity request being answered is a DELETE of the linked segment at a
\* timeline and position, and no linked segment is stored there.
MissingByPosition ==
    /\ crudReq'.method = "DELETE"
    /\ crudReq'.path = ByPosition
    /\ ~\E k \in DOMAIN linkedSegments :
            linkedSegments[k].timelineId = 1 /\ linkedSegments[k].position = crudReq'.id

\* GET by id of a record that is not stored answers 404.
MissingGetNotFound ==
    \A id \in RecordIds :
        /\ id \notin DOMAIN timelines => GetTimeline(id) = NotFound
        /\ id \notin DOMAIN tiles => GetTile(id) = NotFound
        /\ id \notin DOMAIN audioTracks => GetAudioTrack(id) = NotFound
        /\ id \notin DOMAIN audioClips => GetAudioClip(id) = NotFound

\* PATCH and DELETE of a setting that is not stored, and GET of the status
\* of a tile that has no job, answer 404.
MissingSettingOrJobNotFound ==
    /\ settingsRes'.method = "PATCH" =>
        \A id \in 1..MaxIds, u \in SettingsPatchBodies, v \in SettingsReplies :
            (/\ id \notin DOMAIN apiSettings
             /\ PatchSetting(id, u, v)
             /\ settingsRes' = PatchSettingResponse(apiSettings, id, u, v))
                => settingsRes'.code = 404
    /\ settingsRes'.method = "DELETE" =>
        \A id \in 1..MaxIds :
            (/\ id \notin DOMAIN apiSettings
             /\ DeleteSettingById(id)
             /\ settingsRes' = DeleteSettingResponse(apiSettings, id))
                => settingsRes'.code = 404
    /\ poll'.pc = "done" =>
        \A t \in TileIds :
            (~HasJob(jobStore, t) /\ PollStart(t)) => poll'.res.code = 404

\* C13 as stated: every GET, PATCH or DELETE that addresses a timeline,
\* tile, tile link, linked segment, audio track, audio clip, setting or
\* tile's job that is not stored is answered 404.
C13_MissingEntityIsNotFound ==
    [][/\ MissingGetNotFound
       /\ MissingSettingOrJobNotFound
       /\ (MissingById \/ MissingByPosition) => crudRes'.code = 404
      ]_vars

\* C13 as the code has it: the same, except that DELETE
\* /api/linked-segments?timelineId=..&position=.. is answered 204 whether
\* or not a linked segment is stored at that timeline and position.
C13_MissingIsNotFoundButByPosition ==
    [][/\ MissingGetNotFound
       /\ MissingSettingOrJobNotFound
       /\ MissingById => crudRes'.code = 404
       /\ (crudReq'.method = "DELETE" /\ crudReq'.path = ByPosition)
            => crudRes'.code = 204
      ]_vars

\* C13 witness: a DELETE by timeline and position has been answered 204
\* and has removed no record, none being stored there.
C13_NothingAtPositionNoContent ==
    /\ crudReq.method = "DELETE"
    /\ crudReq.path = ByPosition
    /\ crudReq.gone = {}
    /\ crudRes.code = 204

\* ------------------------------------------------ client: the app's store

\* The positions Home creates the first tiles at: the code has 0, 1 and 2.
MaxPosition == 1

InitialPositions == 0..MaxPosition

\* A field that may be absent from a record: undefined reads as "".
MediaUrlOf(tile) == IF "mediaUrl" \in DOMAIN tile THEN tile.mediaUrl ELSE ""

\* tile.provider || (tile.type === "image" ? "flux" : "runway")
ProviderOf(tile) ==
    IF "provider" \in DOMAIN tile /\ tile.provider # "" THEN tile.provider
    ELSE IF tile.type = "image" THEN "flux" ELSE "runway"

\* useAppStore.updateTile / removeTile / removeTimeline
updateTile(list, id, updates) ==
    [k \in DOMAIN list |-> IF k = id THEN Merge(list[k], updates) ELSE list[k]]

removeTile(list, ids) == [k \in DOMAIN list \ ids |-> list[k]]

removeTimeline(list, ids) == [k \in DOMAIN list \ ids |-> list[k]]

\* What the generation and status handlers and the settings routes keep.
served == <<history, atRequest, everStored, submitted, crudReq, settingsRes,
            validatedKeys>>

\* The user saves a key the vendor accepts, in the settings dialog.
ConnectProvider(provider) ==
    /\ \A k \in DOMAIN apiSettings : apiSettings[k].provider # provider
    /\ PostSetting([provider |-> provider, apiKey |-> "sk-0123456789abcdefghijk"], "ok")
    /\ UNCHANGED <<poll, entities, crudRes, served, client>>

\* Home, on an empty project: the main timeline is posted and then the
\* first tiles, an image and a video tile at every position; each success
\* invalidates its query and the refetched lists are put into the store.
HomeLoads ==
    LET main == nextId
        imageId(p) == nextId + 1 + p
        videoId(p) == nextId + 2 + MaxPosition + p
        first(type, p) ==
            ParseTile([type |-> type, timelineId |-> main, position |-> p,
                       prompt |-> "", selectedFrame |-> 0, isGenerating |-> FALSE])
        created ==
            [k \in {imageId(p) : p \in InitialPositions}
                    \cup {videoId(p) : p \in InitialPositions} |->
                IF k <= imageId(MaxPosition)
                THEN Merge(first("image", k - imageId(0)), [id |-> k])
                ELSE Merge(first("video", k - videoId(0)), [id |-> k])]
    IN  /\ timelines = EmptyMap
        /\ tiles = EmptyMap
        /\ timelines' = CreateTimeline(timelines, main,
                ParseTimeline([name |-> "Main Timeline", isCollapsed |-> FALSE,
                               order |-> 0]))
        /\ tiles' = created
        /\ nextId' = nextId + 3 + 2 * MaxPosition
        /\ cTimelines' = timelines'
        /\ cTiles' = tiles'
        /\ crudRes' = Response(201, nextId' - 1)
        /\ UNCHANGED <<apiSettings, jobStore, genReq, poll, tileLinks, linkedSegments,
                       audioTracks, audioClips, served, cLinkedSegments, pendingJobs,
                       mutation, requests, timeouts, polling>>

\* Tile.handlePromptChange and handlePromptBlur: the prompt is typed into
\* the store and sent when the field loses the focus.
EditPrompt(t, value) ==
    /\ t \in DOMAIN cTiles
    /\ cTiles[t].prompt = ""
    /\ cTiles' = updateTile(cTiles, t, [prompt |-> value])
    /\ requests' = requests \cup
            {[method |-> "PATCH", path |-> "tiles", id |-> t,
              updates |-> [prompt |-> value]]}
    /\ UNCHANGED <<apiSettings, nextId, jobStore, genReq, poll, entities, crudRes,
                   served, cTimelines, cLinkedSegments, pendingJobs, mutation,
                   timeouts, polling>>

\* generateMutation.mutationFn up to its request: the tile is shown as
\* generating, a video tile takes the image of the image tile above it as
\* its reference, and POST /api/generate/:type is sent and parsed.
StartGeneration(t) ==
    LET tile == cTiles[t]
        above == FirstOf({k \in DOMAIN cTiles :
                    /\ cTiles[k].type = "image"
                    /\ cTiles[k].timelineId = tile.timelineId
                    /\ cTiles[k].position = tile.position})
        referenceFrame ==
            IF tile.type = "video" /\ above # 0 THEN MediaUrlOf(cTiles[above]) ELSE ""
        reference == IF referenceFrame # "" THEN referenceFrame ELSE MediaUrlOf(tile)
    IN  /\ mutation.pc = "idle"
        /\ t \in DOMAIN cTiles
        /\ cTiles' = updateTile(cTiles, t, [isGenerating |-> TRUE])
        /\ GenStart("r1", tile.type, TRUE, ProviderOf(tile), t, tile.prompt,
                    reference # "")
        /\ atRequest' = ConnectedProviders(apiSettings)
        /\ mutation' = [pc |-> "sent", tileId |-> t, type |-> tile.type,
                        timelineId |-> tile.timelineId, position |-> tile.position,
                        provider |-> ProviderOf(tile)]
        /\ UNCHANGED <<history, poll, everStored, entities, crudRes, submitted,
                       crudReq, settingsRes, validatedKeys, cTimelines,
                       cLinkedSegments, pendingJobs, requests, polling>>

\* The Generate button of a tile, disabled while the tile is generating or
\* has no prompt; the user asks for the media a tile does not have yet.
HandleGenerate(t) ==
    /\ t \in DOMAIN cTiles
    /\ ~cTiles[t].isGenerating
    /\ cTiles[t].prompt # ""
    /\ MediaUrlOf(cTiles[t]) = ""
    /\ StartGeneration(t)
    /\ UNCHANGED timeouts

\* The timeout set for a video tile fires: generateMutation.mutate.
TimeoutFires(t) ==
    /\ t \in timeouts
    /\ StartGeneration(t)
    /\ timeouts' = timeouts \ {t}

\* The generation endpoint's call returns and the response is sent.
VendorAnswers(reply) ==
    /\ \/ GenFinish("r1", reply, "j1")
       \/ reply = "ok_media" /\ PlaceholderFinish("r1")
    /\ everStored' = everStored \cup DOMAIN jobStore'
    /\ UNCHANGED <<history, atRequest, poll, entities, crudRes, submitted, crudReq,
                   settingsRes, validatedKeys, client>>

\* generateMutation.onSuccess and onError, for the response in res; tile is
\* the tile as mutationFn read it.
OnSettled(res, tile) ==
    LET shown == updateTile(cTiles, tile.tileId, [isGenerating |-> FALSE])
        videoTiles == {k \in DOMAIN cTiles :
                        /\ cTiles[k].type = "video"
                        /\ cTiles[k].timelineId = tile.timelineId
                        /\ cTiles[k].position = tile.position}
    IN  IF res.status # 200
        THEN [tiles |-> shown, pending |-> {}, patches |-> {}, timeouts |-> {}]
        ELSE IF res.jobId # "none"
        THEN [tiles |-> cTiles, pending |-> {tile.tileId}, patches |-> {},
              timeouts |-> {}]
        ELSE IF res.success # "true" \/ res.mediaUrl = "none"
        THEN [tiles |-> shown, pending |-> {}, patches |-> {}, timeouts |-> {}]
        ELSE [tiles |-> updateTile(cTiles, tile.tileId,
                            [isGenerating |-> FALSE, mediaUrl |-> res.mediaUrl]),
              pending |-> {},
              patches |-> {[method |-> "PATCH", path |-> "tiles", id |-> tile.tileId,
                            updates |-> [isGenerating |-> FALSE,
                                         mediaUrl |-> res.mediaUrl]]},
              timeouts |-> IF tile.type = "image"
                           THEN {k \in videoTiles :
                                    cTiles[k].prompt # "" /\ ~cTiles[k].isGenerating}
                           ELSE {}]

\* The response of the generation endpoint reaches the client, and the
\* request is over.
GenerateSettles ==
    LET after == OnSettled(genReq["r1"].res, mutation)
    IN  /\ mutation.pc = "sent"
        /\ genReq["r1"].pc = "done"
        /\ cTiles' = after.tiles
        /\ pendingJobs' = pendingJobs \cup after.pending
        /\ requests' = requests \cup after.patches
        /\ timeouts' = timeouts \cup after.timeouts
        /\ mutation' = IdleMutation
        /\ genReq' = [genReq EXCEPT !["r1"] = IdleRequest]
        /\ UNCHANGED <<apiSettings, nextId, jobStore, poll, entities, crudRes,
                       served, cTimelines, cLinkedSegments, polling>>

\* A request the client has sent is served, and its response handled:
\* updateTileMutation puts the tile the server returns into the store,
\* deleteTimelineMutation invalidates the timelines and the tiles, which
\* are fetched again and put into the store; a response that is not ok
\* makes apiRequest throw, and nothing handles it.
RequestSettles(q) ==
    /\ q \in requests
    /\ requests' = requests \ {q}
    /\ CASE q.method = "PATCH" ->
                /\ PatchTiles(q.id, q.updates)
                /\ cTiles' = IF q.id \in DOMAIN tiles
                             THEN updateTile(cTiles, q.id, tiles'[q.id]) ELSE cTiles
                /\ UNCHANGED cTimelines
         [] q.method = "DELETE" /\ q.path = "tiles" ->
                /\ DeleteTiles(q.id)
                /\ UNCHANGED <<cTiles, cTimelines>>
         [] OTHER ->
                /\ DeleteTimelines(q.id)
                /\ cTiles' = IF q.id \in DOMAIN timelines THEN tiles' ELSE cTiles
                /\ cTimelines' = IF q.id \in DOMAIN timelines THEN timelines'
                                  ELSE cTimelines
    /\ UNCHANGED <<apiSettings, jobStore, genReq, poll, served, cLinkedSegments,
                   pendingJobs, mutation, timeouts, polling>>

\* The polling interval, for one pending tile: GET /api/generate/status.
PollTile(t) ==
    /\ t \in pendingJobs
    /\ polling = 0
    /\ PollStart(t)
    /\ polling' = t
    /\ UNCHANGED <<history, atRequest, everStored, entities, crudRes, submitted,
                   crudReq, settingsRes, validatedKeys, cTimelines, cTiles,
                   cLinkedSegments, pendingJobs, mutation, requests, timeouts>>

\* The vendor answers the status call.
VendorReports(reply) ==
    /\ PollFinish(reply)
    /\ UNCHANGED <<history, atRequest, everStored, entities, crudRes, submitted,
                   crudReq, settingsRes, validatedKeys, client>>

\* The polling interval, for the status it has fetched: a completed job
\* with a mediaUrl and a failed job end the tile's generation and its
\* polling; every other response is passed over.
PollSettles ==
    LET res == poll.res
        completed == res.code = 200 /\ res.status = "completed" /\ res.mediaUrl # "none"
        failed == res.code = 200 /\ res.status = "failed"
    IN  /\ polling # 0
        /\ poll.pc = "done"
        /\ polling' = 0
        /\ cTiles' = IF completed
                     THEN updateTile(cTiles, polling,
                            [isGenerating |-> FALSE, mediaUrl |-> res.mediaUrl])
                     ELSE IF failed
                     THEN updateTile(cTiles, polling, [isGenerating |-> FALSE])
                     ELSE cTiles
        /\ pendingJobs' = IF completed \/ failed THEN pendingJobs \ {polling}
                          ELSE pendingJobs
        /\ poll' = IdlePoll
        /\ UNCHANGED <<apiSettings, nextId, jobStore, genReq, entities, crudRes,
                       served, cTimelines, cLinkedSegments, mutation, requests,
                       timeouts>>

\* Nothing the client has sent or scheduled is outstanding.
Quiet == mutation.pc = "idle" /\ requests = {} /\ timeouts = {} /\ polling = 0

\* The page is reloaded: the component state is gone and the store is
\* filled from GET /api/timelines, /api/tiles and /api/linked-segments.
Reload ==
    /\ Quiet
    /\ cTimelines # EmptyMap
    /\ cTimelines' = timelines
    /\ cTiles' = tiles
    /\ cLinkedSegments' = GetLinkedSegments
    /\ pendingJobs' = {}
    /\ UNCHANGED <<apiSettings, nextId, jobStore, genReq, poll, entities, crudRes,
                   served, mutation, requests, timeouts, polling>>

\* The workspace: one user, one browser tab; the user writes the prompts
\* of the first segment.
NextClient ==
    \/ \E p \in {"flux", "runway"} : ConnectProvider(p)
    \/ HomeLoads
    \/ \E t \in {k \in DOMAIN cTiles : cTiles[k].position = 0} :
            EditPrompt(t, WellFormedPrompt)
    \/ \E t \in DOMAIN cTiles : HandleGenerate(t)
    \/ \E t \in timeouts : TimeoutFires(t)
    \/ \E reply \in {"ok_media", "ok_job", "http_500"} : VendorAnswers(reply)
    \/ GenerateSettles
    \/ \E q \in requests : RequestSettles(q)
    \/ \E t \in pendingJobs : PollTile(t)
    \/ \E reply \in {"succeeded", "succeeded_no_output", "running", "failed"} :
            VendorReports(reply)
    \/ PollSettles
    \/ Reload

SpecClient == Init /\ [][NextClient]_vars

\* The ids a tile of the client can have.
ClientTileIds == 1..(MaxIds + 3 + 2 * MaxPosition)

\* The polling interval keeps firing and goes through every pending job,
\* every fetch is answered and every answer handled; nothing makes the
\* user act.
SpecClientPolling ==
    /\ SpecClient
    /\ \A t \in ClientTileIds : SF_polling(PollTile(t))
    /\ WF_(poll.pc)(\E reply \in {"succeeded", "succeeded_no_output", "running", "failed"} :
                        VendorReports(reply))
    /\ WF_polling(PollSettles)

\* ------------------------------------------------------------------ C16

\* C16: whenever the client shows a tile with a generated mediaUrl and
\* isGenerating false and no request is in flight, server storage holds the
\* same mediaUrl and isGenerating value for that tile, whether the media
\* came in the generation response or from a status poll.
C16_ShownMediaIsStored ==
    Quiet =>
        \A t \in DOMAIN cTiles :
            MediaUrlOf(cTiles[t]) # "" /\ ~cTiles[t].isGenerating =>
                /\ t \in DOMAIN tiles
                /\ MediaUrlOf(tiles[t]) = MediaUrlOf(cTiles[t])
                /\ tiles[t].isGenerating = cTiles[t].isGenerating

\* ------------------------------------------------------------------ C17

\* `${url}?frame=${framePercent}`
FrameUrl(url, framePercent) == url \o "?frame=" \o ToString(framePercent)

\* The step in which the client learns that the generation of tile t has
\* succeeded with the media at url: in the generation response, or in the
\* status of its job.
GenerationSucceeds(t, url) ==
    \/ /\ mutation.pc = "sent"
       /\ mutation'.pc = "idle"
       /\ mutation.tileId = t
       /\ genReq["r1"].res.status = 200
       /\ genReq["r1"].res.jobId = "none"
       /\ genReq["r1"].res.mediaUrl = url
    \/ /\ polling = t
       /\ polling' = 0
       /\ poll.res.code = 200
       /\ poll.res.status = "completed"
       /\ poll.res.mediaUrl = url

MediaUrls == {"vendor-url", "pollinations-url", "picsum-url"}

\* C17: once an image tile's generation succeeds, every video tile at the
\* same timeline and position has that image as its source, and its
\* generation is started when it has a prompt and is not generating; once a
\* video tile's generation succeeds, every image tile at the next position
\* of the same timeline has a frame URL derived from that video.
C17_TilesChainedBothWays ==
    [][\A t \in DOMAIN cTiles, url \in MediaUrls :
        GenerationSucceeds(t, url) =>
            \A k \in DOMAIN cTiles :
                /\ (/\ cTiles[t].type = "image"
                    /\ cTiles[k].type = "video"
                    /\ cTiles[k].timelineId = cTiles[t].timelineId
                    /\ cTiles[k].position = cTiles[t].position)
                   => /\ MediaUrlOf(cTiles'[k]) = url \/ k \in timeouts'
                      /\ cTiles[k].prompt # "" /\ ~cTiles[k].isGenerating
                            => k \in timeouts'
                /\ (/\ cTiles[t].type = "video"
                    /\ cTiles[k].type = "image"
                    /\ cTiles[k].timelineId = cTiles[t].timelineId
                    /\ cTiles[k].position = cTiles[t].position + 1)
                   => MediaUrlOf(cTiles'[k]) \in
                        {FrameUrl(url, percent) : percent \in 0..100}]_vars

\* ---------------------------------------------------- client: branches

\* The branch timelines created in one run.
MaxBranches == 3

\* insertTimelineSchema.parse of the branching workspace: the parent link,
\* the tile branched from and the direction are kept.
ParseBranchTimeline(body) ==
    Merge([name |-> "Main Timeline", isCollapsed |-> FALSE, order |-> 0], body)

\* timeline.parentTimelineId, 0 when the timeline has none.
ParentOf(timeline) ==
    IF "parentTimelineId" \in DOMAIN timeline THEN timeline.parentTimelineId ELSE 0

\* handleBranchUp ("up", an image tile) and handleBranchDown ("down", a
\* video tile): a timeline that has the tile's timeline as its parent is
\* posted and, on its success, a first tile that takes over the prompt and
\* the media of the tile branched from; both are added to the store. A
\* branch is made while no request is outstanding.
HandleBranch(tileId, direction) ==
    LET tile == cTiles[tileId]
        branchCount ==
            Cardinality({k \in DOMAIN cTimelines :
                /\ ParentOf(cTimelines[k]) # 0
                /\ cTimelines[k].branchFromTileId = tileId
                /\ cTimelines[k].branchDirection = direction})
        newTimeline ==
            [name |-> "Branch " \o ToString(Cardinality(DOMAIN cTimelines) + 1),
             parentTimelineId |-> tile.timelineId, branchFromTileId |-> tileId,
             branchDirection |-> direction, isCollapsed |-> FALSE,
             order |-> branchCount]
        media == IF MediaUrlOf(tile) = "" THEN [prompt |-> tile.prompt]
                 ELSE [prompt |-> tile.prompt, mediaUrl |-> tile.mediaUrl]
        newTile ==
            Merge([type |-> IF direction = "up" THEN "image" ELSE "video",
                   timelineId |-> nextId, position |-> 0, selectedFrame |-> 0,
                   isGenerating |-> FALSE], media)
    IN  /\ tileId \in DOMAIN cTiles
        /\ Quiet
        /\ Cardinality(DOMAIN submitted) < MaxBranches
        /\ timelines' = CreateTimeline(timelines, nextId, ParseBranchTimeline(newTimeline))
        /\ cTimelines' = Put(cTimelines, nextId, timelines'[nextId])
        /\ tiles' = CreateTile(tiles, nextId + 1, ParseTile(newTile))
        /\ cTiles' = Put(cTiles, nextId + 1, tiles'[nextId + 1])
        /\ nextId' = nextId + 2
        /\ crudRes' = Response(201, nextId + 1)
        /\ submitted' = Put(submitted, nextId, timelines'[nextId])
        /\ UNCHANGED <<apiSettings, jobStore, genReq, poll, tileLinks, linkedSegments,
                       audioTracks, audioClips, history, atRequest, everStored,
                       crudReq, settingsRes, validatedKeys, cLinkedSegments,
                       pendingJobs, mutation, requests, timeouts, polling>>

\* DELETE requests for a set of ids.
Deletes(path, ids) ==
    {[method |-> "DELETE", path |-> path, id |-> k, updates |-> EmptyMap] : k \in ids}

\* handleDeleteTimeline of the branching workspace, behind the Delete
\* branch button of a timeline that has a parent: the timeline's tiles,
\* the timelines that have it as their parent with their tiles, and the
\* timeline itself are removed from the store and a DELETE is sent for
\* each of them.
HandleDeleteTimeline(timelineId) ==
    LET own == {k \in DOMAIN cTiles : cTiles[k].timelineId = timelineId}
        childTimelines ==
            {c \in DOMAIN cTimelines : ParentOf(cTimelines[c]) = timelineId}
        theirs == {k \in DOMAIN cTiles : cTiles[k].timelineId \in childTimelines}
    IN  /\ timelineId \in DOMAIN cTimelines
        /\ ParentOf(cTimelines[timelineId]) # 0
        /\ cTiles' = removeTile(cTiles, own \cup theirs)
        /\ cTimelines' = removeTimeline(cTimelines, childTimelines \cup {timelineId})
        /\ requests' = requests \cup Deletes("tiles", own \cup theirs)
                            \cup Deletes("timelines", childTimelines \cup {timelineId})
        /\ UNCHANGED <<apiSettings, nextId, jobStore, genReq, poll, entities, crudRes,
                       served, cLinkedSegments, pendingJobs, mutation, timeouts,
                       polling>>

\* The branching workspace: branches are made from the first tiles of a
\* timeline, and deleted.
NextBranches ==
    \/ HomeLoads
    \/ \E t \in {k \in DOMAIN cTiles : cTiles[k].position = 0},
          direction \in {"up", "down"} : HandleBranch(t, direction)
    \/ \E id \in DOMAIN cTimelines : HandleDeleteTimeline(id)
    \/ \E q \in requests : RequestSettles(q)

SpecBranches == Init /\ [][NextBranches]_vars

\* ------------------------------------------------------------------ C18

\* Whether branch timeline t has timeline a as an ancestor through
\* parentTimelineId, by the links the branches were created with.
RECURSIVE Descends(_, _)
Descends(t, a) ==
    LET parent == ParentOf(submitted[t])
    IN  parent = a \/ (parent \in DOMAIN submitted /\ Descends(parent, a))

\* The branch timelines the user has deleted: only handleDeleteTimeline
\* takes a timeline out of the store.
DeletedBranches == DOMAIN submitted \ DOMAIN cTimelines

MaxTimelines == 2

MaxLinks == 2

MaxInFlight == 2

\* TimelineToolbar.createTimelineMutation, behind the Add Timeline button:
\* a timeline is posted and added to the store and then an image and a
\* video tile at each of its first positions (the code has 0, 1 and 2).
AddTimeline ==
    LET id == nextId
        n == Cardinality(DOMAIN cTimelines)
        imageId(p) == nextId + 1 + 2 * p
        videoId(p) == nextId + 2 + 2 * p
        first(type, p) ==
            ParseTile([type |-> type, timelineId |-> id, position |-> p,
                       prompt |-> "", selectedFrame |-> 0, isGenerating |-> FALSE])
        created ==
            [k \in (nextId + 1)..(nextId + 2 + 2 * MaxPosition) |->
                IF (k - nextId) % 2 = 1
                THEN Merge(first("image", (k - nextId - 1) \div 2), [id |-> k])
                ELSE Merge(first("video", (k - nextId - 2) \div 2), [id |-> k])]
    IN  /\ cTimelines # EmptyMap
        /\ Cardinality(DOMAIN submitted) < MaxTimelines - 1
        /\ timelines' = CreateTimeline(timelines, id,
                ParseTimeline([name |-> "Timeline " \o ToString(n + 1),
                               isCollapsed |-> FALSE, order |-> n]))
        /\ cTimelines' = Put(cTimelines, id, timelines'[id])
        /\ tiles' = [k \in DOMAIN tiles \cup DOMAIN created |->
                        IF k \in DOMAIN created THEN created[k] ELSE tiles[k]]
        /\ cTiles' = [k \in DOMAIN cTiles \cup DOMAIN created |->
                        IF k \in DOMAIN created THEN created[k] ELSE cTiles[k]]
        /\ nextId' = nextId + 3 + 2 * MaxPosition
        /\ crudRes' = Response(201, nextId' - 1)
        /\ submitted' = Put(submitted, id, timelines'[id])
        /\ UNCHANGED <<apiSettings, jobStore, genReq, poll, tileLinks, linkedSegments,
                       audioTracks, audioClips, history, atRequest, everStored,
                       crudReq, settingsRes, validatedKeys, cLinkedSegments,
                       pendingJobs, mutation, requests, timeouts, polling>>

\* isSegmentLinked, for the timelines that are not the only one.
IsLinked(timelineId, position) ==
    \E i \in DOMAIN cLinkedSegments :
        /\ cLinkedSegments[i].timelineId = timelineId
        /\ cLinkedSegments[i].position = position

\* The requests in flight that are q but for their number.
Same(q) ==
    {r \in requests :
        r.path = "linked-segments" /\ [r EXCEPT !.nth = 0] = [q EXCEPT !.nth = 0]}

Sent(q) == [q EXCEPT !.nth = Cardinality(Same(q)) + 1]

\* Segment.handleSegmentClick with the link tool: nothing with a single
\* timeline; else a linked segment's first entry in the store is deleted
\* on the server and an unlinked segment is posted.
HandleSegmentClick(timelineId, position) ==
    LET isSingleTimeline == Cardinality(DOMAIN cTimelines) = 1
        segment == CHOOSE i \in DOMAIN cLinkedSegments :
                        /\ cLinkedSegments[i].timelineId = timelineId
                        /\ cLinkedSegments[i].position = position
                        /\ \A j \in 1..(i - 1) :
                            ~(/\ cLinkedSegments[j].timelineId = timelineId
                              /\ cLinkedSegments[j].position = position)
        post == [method |-> "POST", path |-> "linked-segments", id |-> 0, nth |-> 0,
                 updates |-> [timelineId |-> timelineId, position |-> position,
                              order |-> 0]]
        delete == [method |-> "DELETE", path |-> "linked-segments",
                   id |-> cLinkedSegments[segment].id, nth |-> 0,
                   updates |-> [timelineId |-> timelineId, position |-> position]]
        inFlight == {r \in requests : r.path = "linked-segments"}
        posted == nextId - 1
                    - (1 + Cardinality(DOMAIN submitted)) * (3 + 2 * MaxPosition)
                    + Cardinality({r \in inFlight : r.method = "POST"})
    IN  /\ cTimelines # EmptyMap
        /\ Cardinality(inFlight) < MaxInFlight
        /\ ~isSingleTimeline /\ ~IsLinked(timelineId, position) => posted < MaxLinks
        /\ requests' = IF isSingleTimeline THEN requests
                       ELSE IF IsLinked(timelineId, position)
                       THEN requests \cup {Sent(delete)}
                       ELSE requests \cup {Sent(post)}
        /\ UNCHANGED <<apiSettings, nextId, jobStore, genReq, poll, entities, crudRes,
                       served, cTimelines, cTiles, cLinkedSegments, pendingJobs,
                       mutation, timeouts, polling>>

\* useAppStore.removeLinkedSegment
removeLinkedSegment(list, timelineId, position) ==
    SelectSeq(list, LAMBDA seg : ~(seg.timelineId = timelineId /\ seg.position = position))

\* A request of createSegmentMutation or deleteSegmentMutation is served
\* and its response handled: on success the store is changed and the
\* linked segments, invalidated, are fetched again and put into the store.
SegmentRequestSettles(q) ==
    /\ q \in requests
    /\ q.path = "linked-segments"
    /\ requests' = requests \ {q}
    /\ IF q.method = "POST"
       THEN /\ linkedSegments' = CreateLinkedSegment(linkedSegments, nextId, q.updates)
            /\ nextId' = nextId + 1
            /\ crudRes' = Response(201, nextId)
            /\ cLinkedSegments' = SortByOrder(linkedSegments')
       ELSE /\ linkedSegments' = DeleteLinkedSegment(linkedSegments, q.id)
            /\ crudRes' = Response(IF q.id \in DOMAIN linkedSegments THEN 204 ELSE 404,
                                   q.id)
            /\ cLinkedSegments' = IF q.id \in DOMAIN linkedSegments
                                  THEN SortByOrder(linkedSegments')
                                  ELSE cLinkedSegments
            /\ UNCHANGED nextId
    /\ UNCHANGED <<apiSettings, jobStore, genReq, poll, timelines, tiles, tileLinks,
                   audioTracks, audioClips, served, cTimelines, cTiles, pendingJobs,
                   mutation, timeouts, polling>>

\* RenderPreview.segmentPreviews: the segments rendered, in their order.
\* With one timeline the distinct positions of its tiles, sorted; else the
\* store's linked segments that have an id, sorted by order (the sort is
\* stable).
SortedPositions(positions) ==
    [i \in 1..Cardinality(positions) |->
        CHOOSE p \in positions : Cardinality({x \in positions : x < p}) = i - 1]

StableByOrder(list) ==
    LET rank(i) == Cardinality({j \in DOMAIN list :
                        \/ list[j].order < list[i].order
                        \/ list[j].order = list[i].order /\ j < i})
    IN  [n \in DOMAIN list |-> list[CHOOSE i \in DOMAIN list : rank(i) = n - 1]]

segmentPreviews ==
    IF Cardinality(DOMAIN cTimelines) = 1
    THEN LET timelineId == Least(DOMAIN cTimelines)
             positions == {cTiles[k].position :
                            k \in {j \in DOMAIN cTiles : cTiles[j].timelineId = timelineId}}
             sorted == SortedPositions(positions)
         IN  [i \in DOMAIN sorted |->
                [timelineId |-> timelineId, position |-> sorted[i], order |-> i - 1]]
    ELSE LET kept == StableByOrder(SelectSeq(cLinkedSegments, LAMBDA seg : seg.id # 0))
         IN  [i \in DOMAIN kept |->
                [timelineId |-> kept[i].timelineId, position |-> kept[i].position,
                 order |-> kept[i].order]]

\* The workspace with the link tool: a timeline is added and segments are
\* clicked.
NextLinks ==
    \/ HomeLoads
    \/ AddTimeline
    \/ \E id \in DOMAIN cTimelines, position \in InitialPositions :
            HandleSegmentClick(id, position)
    \/ \E q \in requests : SegmentRequestSettles(q)

SpecLinks == Init /\ [][NextLinks]_vars

\* ------------------------------------------------------------------ C19

\* The positions of the tiles of a timeline in the store.
PositionsOf(timelineId) ==
    {cTiles[k].position : k \in {j \in DOMAIN cTiles : cTiles[j].timelineId = timelineId}}

\* C19: with exactly one timeline the render sequence is every distinct
\* tile position of that timeline in ascending order, whatever the linked
\* segments are; with any other number of timelines it is exactly the
\* store's linked segments in ascending order value, each (timeline,
\* position) appearing once.
C19_RenderSequence ==
    LET shown == segmentPreviews
        only == Least(DOMAIN cTimelines)
    IN  IF Cardinality(DOMAIN cTimelines) = 1
        THEN /\ {shown[i].position : i \in DOMAIN shown} = PositionsOf(only)
             /\ \A i \in DOMAIN shown : shown[i].timelineId = only
             /\ \A i, j \in DOMAIN shown : i < j => shown[i].position < shown[j].position
        ELSE /\ Len(shown) = Len(cLinkedSegments)
             /\ \A i \in DOMAIN cLinkedSegments : \E j \in DOMAIN shown :
                    /\ shown[j].timelineId = cLinkedSegments[i].timelineId
                    /\ shown[j].position = cLinkedSegments[i].position
                    /\ shown[j].order = cLinkedSegments[i].order
             /\ \A i, j \in DOMAIN shown : i < j => shown[i].order <= shown[j].order
             /\ \A i, j \in DOMAIN shown :
                    /\ shown[i].timelineId = shown[j].timelineId
                    /\ shown[i].position = shown[j].position
                    => i = j

\* ------------------------------------------------------------------ C20

\* A generation request finishes with a job id of the vendor for the tile.
StoresJobFor(r, tileId) ==
    /\ Finishing(r)
    /\ genReq'[r].tileId = tileId
    /\ genReq'[r].result.success
    /\ genReq'[r].result.jobId # "none"

\* The status endpoint answers a request for the tile.
PollAnswers(tileId) == PollAnswering /\ poll'.tileId = tileId

\* C20: the job store holds one job per tile, the one stored last. A tile
\* gets a job only when a generation stores one and loses it only by a
\* status request for the tile that answers completed or failed; a request
\* that answers a non-terminal status leaves the job as it is, and a request
\* for a tile without a job answers 404, calls no vendor and stores nothing.
C20_OneJobPerTileUntilTerminalPoll ==
    [][\A t \in TileIds :
        /\ \A r \in Requests : StoresJobFor(r, t) =>
                /\ HasJob(jobStore', t)
                /\ jobStore'[t].jobId = genReq'[r].result.jobId
                /\ jobStore'[t].provider = genReq'[r].provider
                /\ jobStore'[t].tileId = t
        /\ (HasJob(jobStore', t) /\ (~HasJob(jobStore, t) \/ jobStore'[t] # jobStore[t]))
                => \E r \in Requests : StoresJobFor(r, t)
        /\ (HasJob(jobStore, t) /\ ~HasJob(jobStore', t))
                => /\ poll'.pc = "done" /\ poll'.tileId = t
                   /\ poll'.res.code = 200
                   /\ poll'.res.status \in {"completed", "failed"}
        /\ (PollAnswers(t) /\ poll'.res.code = 200) =>
                /\ HasJob(jobStore, t)
                /\ poll'.res.status \in {"completed", "failed"} => ~HasJob(jobStore', t)
                /\ poll'.res.status \notin {"completed", "failed"}
                        => /\ HasJob(jobStore', t)
                           /\ jobStore'[t] = jobStore[t]
        /\ (PollAnswers(t) /\ poll.pc # "checking" /\ ~HasJob(jobStore, t))
                => /\ poll'.res.code = 404
                   /\ ~poll'.called
                   /\ jobStore' = jobStore
      ]_vars

\* C20 witness: a job was stored for a tile and is gone, and a status
\* request for the tile was answered 404 without a vendor call.
C20_NotFoundAfterRemoval ==
    /\ poll.pc = "done"
    /\ poll.res.code = 404
    /\ ~poll.called
    /\ poll.tileId \in everStored
    /\ ~HasJob(jobStore, poll.tileId)

\* ------------------------------------------- storage: records that refer
\* ------------------------------------------- to one another

\* The records posted before the storage routes stop taking new ones.
MaxStored == 4

\* Bodies the schemas accept: a timeline, image and video tiles at two
\* positions of timeline 1, a link of tile 1, and linked segments of
\* both positions, one of them carrying an order of its own.
StorageBodies(path) ==
    CASE path = "timelines" -> {[name |-> "Intro", order |-> 0]}
      [] path = "tiles" ->
            {[type |-> "image", timelineId |-> 1, position |-> 0],
             [type |-> "video", timelineId |-> 1, position |-> 0],
             [type |-> "image", timelineId |-> 1, position |-> 1]}
      [] path = "tile-links" ->
            {[tileId |-> 1, timelineId |-> 1, order |-> 0]}
      [] path = "linked-segments" ->
            {[timelineId |-> 1, position |-> 0, order |-> 0],
             [timelineId |-> 1, position |-> 1, order |-> 7]}

\* PATCH bodies, which the routes hand to storage as they come: a field of
\* the record, and an id.
StoragePatches(path) ==
    CASE path = "timelines" -> {[name |-> "Outro"], [id |-> 2]}
      [] path = "tiles" -> {[position |-> 1], [id |-> 2]}

StorageIds == 1..MaxStored

\* POST /api/timelines, /api/tiles, /api/tile-links and
\* /api/linked-segments with a body the schema accepts.
PostRecord(path, body) ==
    /\ nextId <= MaxStored
    /\ nextId' = nextId + 1
    /\ crudRes' = Response(201, nextId)
    /\ timelines' = IF path = "timelines"
                    THEN CreateTimeline(timelines, nextId, ParseTimeline(body))
                    ELSE timelines
    /\ tiles' = IF path = "tiles"
                THEN CreateTile(tiles, nextId, ParseTile(body))
                ELSE tiles
    /\ tileLinks' = IF path = "tile-links"
                    THEN CreateTileLink(tileLinks, nextId, body)
                    ELSE tileLinks
    /\ linkedSegments' = IF path = "linked-segments"
                         THEN CreateLinkedSegment(linkedSegments, nextId, body)
                         ELSE linkedSegments
    /\ UNCHANGED <<audioTracks, audioClips>>

\* The routes that add and remove linked segments: the segments' own, and
\* the deletion of a tile or a timeline.
NextSegments ==
    \/ /\ \E path \in {"timelines", "tiles", "tile-links", "linked-segments"} :
            \E body \in StorageBodies(path) : PostRecord(path, body)
       /\ UNCHANGED <<submitted, crudReq, generation>>
    \/ /\ \E id \in StorageIds : DeleteTimelines(id)
       /\ UNCHANGED <<submitted, crudReq, generation>>
    \/ /\ \E id \in StorageIds : DeleteTiles(id)
       /\ UNCHANGED <<submitted, crudReq, generation>>
    \/ /\ \E id \in StorageIds : DeleteLinkedSegments(id)
       /\ UNCHANGED <<submitted, crudReq, generation>>
    \/ /\ \E position \in {0, 1} : DeleteLinkedSegmentsAt(1, position)
       /\ UNCHANGED <<submitted, crudReq, generation>>
    \/ /\ ClearLinkedSegments
       /\ UNCHANGED <<submitted, crudReq, generation>>

SpecSegments == Init /\ [][NextSegments]_vars

\* The same routes with the PATCH routes of the timelines and tiles.
NextStorage ==
    \/ NextSegments
    \/ /\ \E id \in StorageIds, u \in StoragePatches("timelines") : PatchTimelines(id, u)
       /\ UNCHANGED <<submitted, crudReq, generation>>
    \/ /\ \E id \in StorageIds, u \in StoragePatches("tiles") : PatchTiles(id, u)
       /\ UNCHANGED <<submitted, crudReq, generation>>

SpecStorage == Init /\ [][NextStorage]_vars

\* ------------------------------------------------------------------ C21

\* C21: after every storage operation the orders of the n stored linked
\* segments are exactly 0..n-1; the segments that stay keep their relative
\* order, and a new segment gets order n whatever its request carried.
C21_SegmentOrdersAreDense ==
    [][LET n == Cardinality(DOMAIN linkedSegments)
           stay == DOMAIN linkedSegments \cap DOMAIN linkedSegments'
       IN  /\ Renumbered(linkedSegments')
           /\ \A j, k \in DOMAIN linkedSegments' :
                linkedSegments'[j].order = linkedSegments'[k].order => j = k
           /\ \A j, k \in stay :
                linkedSegments[j].order < linkedSegments[k].order
                    => linkedSegments'[j].order < linkedSegments'[k].order
           /\ \A k \in DOMAIN linkedSegments' \ DOMAIN linkedSegments :
                linkedSegments'[k].order = n
      ]_vars

\* C21 witness: of three records posted the second is gone, answered 204,
\* and the two linked segments left, one posted with order 0 and one with
\* order 7, are numbered 0 and 1.
C21_RenumberedAfterDelete ==
    /\ nextId = 4
    /\ crudRes = Response(204, 2)
    /\ DOMAIN linkedSegments = {1, 3}
    /\ linkedSegments[1].position = 0 /\ linkedSegments[1].order = 0
    /\ linkedSegments[3].position = 1 /\ linkedSegments[3].order = 1
    /\ tiles = EmptyMap /\ tileLinks = EmptyMap /\ timelines = EmptyMap

\* ------------------------------------------------------------------ C27

\* DELETE /api/tiles/:id has removed the tile stored under the id.
TileDeleted(id) ==
    /\ id \in DOMAIN tiles
    /\ id \notin DOMAIN tiles'
    /\ crudRes' = Response(204, id)

\* The segment of a tile: the linked segments at its timeline and position.
SegmentOf(segments, tile) ==
    {k \in DOMAIN segments :
        /\ segments[k].timelineId = tile.timelineId
        /\ segments[k].position = tile.position}

\* C27: when a stored tile has been deleted, no tile link of the tile and no
\* linked segment at the tile's timeline and position is left, be the tile
\* the image or the video of its segment; the other tiles, the links of
\* other tiles and the linked segments of other segments are kept.
C27_DeleteTileTakesLinksAndSegment ==
    [][\A id \in StorageIds : TileDeleted(id) =>
        /\ \A k \in DOMAIN tileLinks' : tileLinks'[k].tileId # id
        /\ SegmentOf(linkedSegments', tiles[id]) = {}
        /\ tiles' = Remove(tiles, id)
        /\ DOMAIN tileLinks' = {k \in DOMAIN tileLinks : tileLinks[k].tileId # id}
        /\ \A k \in DOMAIN tileLinks' : tileLinks'[k] = tileLinks[k]
        /\ DOMAIN linkedSegments' =
                DOMAIN linkedSegments \ SegmentOf(linkedSegments, tiles[id])
        /\ \A k \in DOMAIN linkedSegments' :
                Omit(linkedSegments'[k], "order") = Omit(linkedSegments[k], "order")
      ]_vars

\* C27 witness: the image tile of position 0, record 1 of four, was
\* deleted; the video tile of the position is still stored, no linked
\* segment of position 0 is, and the linked segment of position 1 is.
C27_ImageTileDeleted ==
    /\ nextId = 5
    /\ crudRes = Response(204, 1)
    /\ DOMAIN tiles = {2}
    /\ tiles[2].type = "video" /\ tiles[2].position = 0
    /\ DOMAIN linkedSegments = {4}
    /\ linkedSegments[4].position = 1
    /\ linkedSegments[4].order = 0

\* ------------------------------------------------------------------ C23

\* Every record of a store is stored under its id.
KeyedById(store) == \A k \in DOMAIN store : store[k].id = k

\* C23: in every storage map the key of a record is the record's id, after
\* any creates, PATCHes (also with a body that carries an id) and deletes.
C23_KeyIsRecordId ==
    /\ KeyedById(timelines)
    /\ KeyedById(tiles)
    /\ KeyedById(tileLinks)
    /\ KeyedById(linkedSegments)
    /\ KeyedById(audioTracks)
    /\ KeyedById(audioClips)

\* ------------------------------------------------------------------ C24

\* C24: a request answered 404 (a PATCH or a DELETE of the entity routes)
\* leaves every storage map as it was.
C24_NotFoundChangesNothing ==
    [][crudRes'.code = 404 => UNCHANGED entities]_vars

\* ------------------------------------------------------------------ C26

\* C26: after any saves and deletes of settings, no two stored settings
\* have the same provider, every stored setting is connected exactly when
\* its key is not empty, a setting that stays keeps its id and provider, and
\* a setting is added under a new id only for a provider that had none.
C26_OneSettingPerProvider ==
    [][/\ \A j, k \in DOMAIN apiSettings' :
            apiSettings'[j].provider = apiSettings'[k].provider => j = k
       /\ \A k \in DOMAIN apiSettings' :
            /\ apiSettings'[k].isConnected <=> apiSettings'[k].apiKey # ""
            /\ apiSettings'[k].id = k
       /\ \A k \in DOMAIN apiSettings \cap DOMAIN apiSettings' :
            apiSettings'[k].provider = apiSettings[k].provider
       /\ \A k \in DOMAIN apiSettings' \ DOMAIN apiSettings :
            \A j \in DOMAIN apiSettings :
                apiSettings[j].provider # apiSettings'[k].provider
      ]_vars

\* C26 witness: the one setting ever created, connected when a generation
\* request arrived, has been saved again with an empty key: it is stored
\* under the same id, not connected.
C26_OverwrittenWithEmptyKey ==
    /\ nextId = 2
    /\ 1 \in DOMAIN apiSettings
    /\ apiSettings[1].provider \in atRequest
    /\ apiSettings[1].apiKey = ""
    /\ ~apiSettings[1].isConnected

\* ------------------------------------------------------------------ C22

\* The vendor job of a pending tile has reached a terminal state: the
\* status endpoint has removed the job it stored for the tile.
JobEnded(t) == t \in pendingJobs /\ ~HasJob(jobStore, t)

\* The tile's generation is over for the client.
NoLongerPending(t) ==
    /\ t \notin pendingJobs
    /\ t \in DOMAIN cTiles => ~cTiles[t].isGenerating

\* C22: a tile in pendingJobs whose vendor job has reached a terminal state
\* is eventually out of pendingJobs with isGenerating false, whatever the
\* terminal status carried and whatever the status endpoint answers.
C22_PendingTileIsReleased ==
    \A t \in ClientTileIds : JobEnded(t) ~> NoLongerPending(t)

\* ------------------------------------------------------------------ C25

\* How many tiles the user inserts.
MaxInserts == 2

\* The tiles of one type in one timeline, in a list of tiles.
RowOf(list, timelineId, type) ==
    {k \in DOMAIN list : list[k].timelineId = timelineId /\ list[k].type = type}

\* The POST requests of createTileMutation that are in flight.
Creating == {q \in requests : q.method = "POST"}

\* TimelineWorkspace.handleInsertTile: every tile of the row at the
\* position or after it is patched to its position plus one, as the store
\* has it when the button is clicked, and the new tile is posted; the
\* store changes when the responses arrive.
HandleInsertTile(timelineId, type, position) ==
    LET timelineTiles == RowOf(cTiles, timelineId, type)
        moved == {k \in timelineTiles : cTiles[k].position >= position}
        prevTiles == {k \in timelineTiles : cTiles[k].position = position - 1}
        chainedMediaUrl == IF prevTiles = {} THEN ""
                           ELSE MediaUrlOf(cTiles[Least(prevTiles)])
        newTile == [type |-> type, timelineId |-> timelineId, position |-> position,
                    prompt |-> "", selectedFrame |-> 0, isGenerating |-> FALSE]
        body == IF type = "video" /\ chainedMediaUrl # ""
                THEN Merge(newTile, [mediaUrl |-> chainedMediaUrl]) ELSE newTile
    IN  /\ timelineId \in DOMAIN cTimelines
        /\ Cardinality(DOMAIN tiles) + Cardinality(Creating)
                < 2 * (MaxPosition + 1) + MaxInserts
        /\ requests' = requests
                \cup {[method |-> "PATCH", path |-> "tiles", id |-> k,
                       updates |-> [position |-> cTiles[k].position + 1]] : k \in moved}
                \cup {[method |-> "POST", path |-> "tiles",
                       id |-> Cardinality(DOMAIN tiles) + Cardinality(Creating),
                       updates |-> body]}
        /\ UNCHANGED <<apiSettings, nextId, jobStore, genReq, poll, entities, crudRes,
                       served, cTimelines, cTiles, cLinkedSegments, pendingJobs,
                       mutation, timeouts, polling>>

\* POST /api/tiles is served and createTileMutation.onSuccess runs: the
\* tile is added to the store and the tiles query is invalidated.
CreateSettles(q) ==
    /\ q \in Creating
    /\ tiles' = CreateTile(tiles, nextId, ParseTile(q.updates))
    /\ nextId' = nextId + 1
    /\ crudRes' = Response(201, nextId)
    /\ cTiles' = Put(cTiles, nextId, tiles'[nextId])
    /\ requests' = (requests \ {q})
            \cup {[method |-> "GET", path |-> "tiles", id |-> 0, updates |-> EmptyMap]}
    /\ UNCHANGED <<apiSettings, jobStore, genReq, poll, timelines, tileLinks,
                   linkedSegments, audioTracks, audioClips, served, cTimelines,
                   cLinkedSegments, pendingJobs, mutation, timeouts, polling>>

\* The tiles query is fetched again and Home puts its data into the store.
RefetchSettles(q) ==
    /\ q \in requests
    /\ q.method = "GET"
    /\ cTiles' = tiles
    /\ requests' = requests \ {q}
    /\ UNCHANGED <<apiSettings, nextId, jobStore, genReq, poll, entities, crudRes,
                   served, cTimelines, cLinkedSegments, pendingJobs, mutation,
                   timeouts, polling>>

\* The workspace while tiles are inserted: the user clicks insert buttons
\* of the rows of the main timeline, and the requests are served and
\* answered one at a time, in any order.
NextInsert ==
    \/ HomeLoads
    \/ \E timelineId \in DOMAIN cTimelines, type \in {"image", "video"},
          position \in 0..(MaxPosition + 1) :
            HandleInsertTile(timelineId, type, position)
    \/ \E q \in {r \in requests : r.method = "PATCH"} : RequestSettles(q)
    \/ \E q \in Creating : CreateSettles(q)
    \/ \E q \in requests : RefetchSettles(q)

SpecInsert == Init /\ [][NextInsert]_vars

\* No two tiles of a row of the list are at the same position.
DistinctPositions(list) ==
    \A j \in DOMAIN list, k \in DOMAIN list :
        (/\ j # k
         /\ list[j].timelineId = list[k].timelineId
         /\ list[j].type = list[k].type) => list[j].position # list[k].position

\* C25: once every request of the inserts has completed, the tiles of one
\* type in one timeline are at pairwise distinct positions, in the client
\* store and in server storage, also when two inserts overlapped.
C25_InsertKeepsPositionsDistinct ==
    requests = {} => DistinctPositions(tiles) /\ DistinctPositions(cTiles)

====
